---- MODULE Spec2Model ----
(***************************************************************************)
(* Model of the linter-bundle orchestration core:                          *)
(*   - LinterRegistry (dispatch coordinator): lint(), addLinter(),         *)
(*     deleteLinter(), the 30 s timeout race and the result handlers;      *)
(*   - MessageRegistry (reconciliation store): set(), update(), the        *)
(*     delete* operations and the trailing debounce that schedules a pass; *)
(*   - the glue of Linter (linter-main) that wires the two together.       *)
(***************************************************************************)
EXTENDS Integers, Sequences, FiniteSets, TLC

(***************************************************************************)
(* Bounds of the model.                                                    *)
(***************************************************************************)
\* Highest request number a provider is issued (caps linter[$requestLatest])
\* when one provider is followed through its requests.
MaxRequest == 2
\* Highest request number a provider is issued when two providers fan out.
MaxFanOut == 1
\* Highest number of lint() calls suspended at `await isPathIgnored` at once.
MaxCalls == 1
\* Highest number of passes over the one bucket that is followed through its
\* diffs.
MaxDiffs == 2

(***************************************************************************)
(* Values.                                                                 *)
(***************************************************************************)
NULL == "null"

\* Provider objects, identified by their (unique) name.
Providers == {"p1", "p2"}

LinterScope(p) == IF p = "p1" THEN "file" ELSE "project"

LintsOnChange(p) == p = "p1"

GrammarScopes(p) == IF p = "p1" THEN {"*"} ELSE {"source.js"}

\* The grammar scopes a provider may declare over its life.
ScopeLists == {{"*"}, {"source.js"}, {"source.python"}}

\* Text editors and the buffer each one shows.
Editors == {"e1", "e2"}

\* e3 is a second editor (a split pane) on the document of e1.
AllEditors == Editors \cup {"e3"}

BufferOf(e) == IF e = "e2" THEN "b2" ELSE "b1"

Buffers == {BufferOf(e) : e \in Editors}

\* The scope arrays of the editor's cursors (one set per cursor).
CursorScopes(e) ==
  IF e = "e2" THEN {{"source.python"}, {"source.python", "string.quoted"}}
  ELSE {{"source.js"}}

\* File paths an editor may have; "" is an editor without a path.
DefaultIgnoreGlob == "**/*.min.{js,css}"

Paths == {"", "/src/a.js", "/dist/a.min.js", "/node_modules/x.js"}

\* minimatch(path, glob) for the paths and globs of the model.
Minimatch(path, glob) == glob = DefaultIgnoreGlob /\ path = "/dist/a.min.js"

\* repository.isPathIgnored(path): what the VCS ignore rules say.
RepositoryIgnores(path) == path = "/node_modules/x.js"

(***************************************************************************)
(* Messages.  A raw message is what a provider returns; oid stands for the *)
(* identity of the JavaScript object (providers return new objects on      *)
(* every request, so oid is the request number that produced it).          *)
(***************************************************************************)
RawMessage(excerpt, linterName, icon, oid) ==
  [ linterName  |-> linterName,
    location    |-> [file |-> "/src/a.js",
                     position |-> [class |-> "Array", start |-> <<0, 0>>, end |-> <<0, 5>>]],
    reference   |-> NULL,
    excerpt     |-> excerpt,
    severity    |-> "error",
    icon        |-> icon,
    url         |-> NULL,
    description |-> NULL,
    version     |-> 0,
    key         |-> NULL,
    oid         |-> oid ]

\* helpers.js getRangeClass: Range.fromObject unless already a Range.
getRangeClass(range) ==
  IF range.class # "Range" THEN [range EXCEPT !.class = "Range"] ELSE range

\* helpers.js updateMessageKey: the key is the concatenation of the tagged fields.
MessageKey(message) ==
  << message.linterName,
     message.location.file,
     message.location.position.start[1], message.location.position.start[2],
     message.location.position.end[1], message.location.position.end[2],
     message.reference,
     message.excerpt,
     message.severity,
     IF message.icon \notin {NULL, ""} THEN message.icon ELSE NULL,
     IF message.url \notin {NULL, ""} THEN message.url ELSE NULL,
     message.description >>

updateMessageKey(message) == [message EXCEPT !.key = MessageKey(message)]

\* helpers.js normalizeMessages, for one message.
normalizeMessage(linterName, message) ==
  updateMessageKey(
    [message EXCEPT
       !.location.position = getRangeClass(message.location.position),
       !.version = 2,
       !.linterName = IF message.linterName = "" THEN linterName
                      ELSE message.linterName])

normalizeMessages(linterName, messages) ==
  [i \in 1..Len(messages) |-> normalizeMessage(linterName, messages[i])]

Keys(messages) == {messages[i].key : i \in 1..Len(messages)}

RECURSIVE SelectSeq2(_, _, _)
\* The subsequence of s whose elements have (in = TRUE) or lack a key in keys.
SelectSeq2(s, keys, in) ==
  IF s = <<>> THEN <<>>
  ELSE LET rest == SelectSeq2(Tail(s), keys, in)
       IN IF (Head(s).key \in keys) = in THEN <<Head(s)>> \o rest ELSE rest

RECURSIVE createKeyMessageMap(_)
\* helpers.js createKeyMessageMap: a Map keyed by message key, in insertion
\* order of the first occurrence of each key, holding the last message set
\* for the key.  Modelled as the sequence of the Map's values.
createKeyMessageMap(messages) ==
  IF messages = <<>> THEN <<>>
  ELSE LET n == Len(messages)
           last == messages[n]
           before == createKeyMessageMap(SubSeq(messages, 1, n - 1))
       IN IF last.key \in Keys(before)
          THEN [i \in 1..Len(before) |->
                  IF before[i].key = last.key THEN last ELSE before[i]]
          ELSE Append(before, last)

\* A faulty flagMessages: the messages are compared as objects, not by key.
flagMessagesByReference(inputs, oldMessages) ==
  IF oldMessages = <<>>
  THEN [oldKept |-> <<>>, oldRemoved |-> <<>>, newAdded |-> inputs]
  ELSE IF inputs = <<>>
  THEN [oldKept |-> <<>>, oldRemoved |-> oldMessages, newAdded |-> <<>>]
  ELSE LET InOld(m) == \E i \in 1..Len(oldMessages) : oldMessages[i] = m
           InNew(m) == \E i \in 1..Len(inputs) : inputs[i] = m
       IN [ oldKept    |-> SelectSeq(inputs, InOld),
            oldRemoved |-> SelectSeq(oldMessages, LAMBDA m : ~InNew(m)),
            newAdded   |-> SelectSeq(inputs, LAMBDA m : ~InOld(m)) ]

\* A faulty flagMessages: oldRemoved is collected from oldMessages itself and
\* not from the key -> message Map built from it.
flagMessagesFromList(inputs, oldMessages) ==
  IF oldMessages = <<>>
  THEN [oldKept |-> <<>>, oldRemoved |-> <<>>, newAdded |-> inputs]
  ELSE IF inputs = <<>>
  THEN [oldKept |-> <<>>, oldRemoved |-> oldMessages, newAdded |-> <<>>]
  ELSE LET cache == createKeyMessageMap(oldMessages)
           oldKept == SelectSeq2(inputs, Keys(cache), TRUE)
           newAdded == SelectSeq2(inputs, Keys(cache), FALSE)
           oldRemoved == SelectSeq2(oldMessages, Keys(oldKept), FALSE)
       IN [oldKept |-> oldKept, oldRemoved |-> oldRemoved, newAdded |-> newAdded]

\* A faulty flagMessages: oldKept holds the messages of oldMessages, not the
\* new ones that have their keys.
flagMessagesKeepsOld(inputs, oldMessages) ==
  IF oldMessages = <<>>
  THEN [oldKept |-> <<>>, oldRemoved |-> <<>>, newAdded |-> inputs]
  ELSE IF inputs = <<>>
  THEN [oldKept |-> <<>>, oldRemoved |-> oldMessages, newAdded |-> <<>>]
  ELSE LET cache == createKeyMessageMap(oldMessages)
           oldKept == SelectSeq2(cache, Keys(inputs), TRUE)
           newAdded == SelectSeq2(inputs, Keys(cache), FALSE)
           oldRemoved == SelectSeq2(cache, Keys(oldKept), FALSE)
       IN [oldKept |-> oldKept, oldRemoved |-> oldRemoved, newAdded |-> newAdded]

\* helpers.js flagMessages(inputs, oldMessages).
flagMessages(inputs, oldMessages) ==
  IF oldMessages = <<>>
  THEN [oldKept |-> <<>>, oldRemoved |-> <<>>, newAdded |-> inputs]
  ELSE IF inputs = <<>>
  THEN [oldKept |-> <<>>, oldRemoved |-> oldMessages, newAdded |-> <<>>]
  ELSE LET cache == createKeyMessageMap(oldMessages)
           oldKept == SelectSeq2(inputs, Keys(cache), TRUE)
           newAdded == SelectSeq2(inputs, Keys(cache), FALSE)
           oldRemoved == SelectSeq2(cache, Keys(oldKept), FALSE)
       IN [oldKept |-> oldKept, oldRemoved |-> oldRemoved, newAdded |-> newAdded]

(***************************************************************************)
(* State.                                                                  *)
(***************************************************************************)
VARIABLES
  \* LinterRegistry
  linters,               \* this.linters: the registered providers
  activated,             \* linter[$activated], per provider object
  requestLatest,         \* linter[$requestLatest]
  requestLastReceived,   \* linter[$requestLastReceived]
  lintOnChange,          \* this.lintOnChange
  lintPreviewTabs,       \* this.lintPreviewTabs
  ignoreVCS,             \* this.ignoreVCS
  ignoreGlob,            \* this.ignoreGlob
  lintOnChangeInterval,  \* atom.config: linter-bundle.lintOnChangeInterval
  disabledProviders,     \* this.disabledProviders
  activeNotifications,   \* this.activeNotifications (keys: provider names)
  beginCount,            \* did-begin-linting events emitted, per provider
  finishCount,           \* did-finish-linting events emitted, per provider
  lastHandled,           \* the request whose race handler ran last, and how it ended
  orphaned,              \* history: requests in flight when deleteLinter took their provider
  disposed,              \* dispose() has run: the emitter delivers no event any more
  grammarScopes,         \* linter.grammarScopes, the provider's own array
  grammarScopesSet,      \* linter._grammarScopesSet, when addLinter has set it
  \* asynchronous work in flight
  lintCalls,             \* lint() calls: gate evaluated, not yet resumed
  requests,              \* issued requests whose provider or timer is outstanding
  \* the editor side
  editorLinters,         \* EditorRegistry.editorLinters: editors being linted
  paths,                 \* editor.getPath(), per editor
  pendingItem,           \* atom.workspace.getActivePane().getPendingItem()
  pendingElsewhere,      \* the editors that are the pending item of another pane
  aliveBuffers,          \* the buffers for which buffer.isAlive()
  timers,                \* EditorLinter: the debounce timers that are pending
  changeSubscriptions,   \* the debounced change handlers subscribed to buffer.onDidChange
  lastTrigger,           \* history: the should-lint event delivered last
  notifications,         \* open error notifications (their details), per name
  \* MessageRegistry
  messagesMap,           \* this.messagesMap, in Map (insertion) order
  messages,              \* this.messages
  updateState,           \* this.updateState
  debounceArmed,         \* debouncedUpdate has a pending trailing invocation
  lastPass,              \* what the most recent update() pass computed and emitted
  lastSet,               \* history: the buckets last touched, since the pass, by set()
  \* one bucket followed through its diffs
  flagEntry,             \* the entry: messages, oldMessages, changed
  flagLog,               \* history: what flagMessages was given and returned, per pass
  flagWindow,            \* history: the list last given to set() for the followed
                         \* bucket, and the messages of the lists set since the
                         \* last pass that a later set() replaced
  updateCall,            \* where the last call of update() that ran a pass is:
                         \* "emitting" (inside the try block, a listener of
                         \* did-update-messages has control), "out" (it returned)
                         \* or "thrown" (it was left by an exception)
  lastDelete             \* history: the argument and the return value of the
                         \* last call of deleteMessage(), in a list that is
                         \* empty before the first call

registryVars ==
  << linters, activated, requestLatest, requestLastReceived, activeNotifications,
     beginCount, finishCount, lastHandled, orphaned, disposed, grammarScopes,
     grammarScopesSet >>

providerVars == << grammarScopes, grammarScopesSet >>

configVars ==
  << lintOnChange, lintPreviewTabs, ignoreVCS, ignoreGlob, disabledProviders,
     lintOnChangeInterval >>

editorVars ==
  << editorLinters, paths, pendingItem, pendingElsewhere, aliveBuffers, timers,
     changeSubscriptions, lastTrigger >>

storeVars ==
  << messagesMap, messages, updateState, debounceArmed, lastPass, lastSet, flagEntry,
     flagLog, flagWindow, updateCall, lastDelete >>

vars ==
  << linters, activated, requestLatest, requestLastReceived, lintOnChange,
     lintPreviewTabs, ignoreVCS, ignoreGlob, disabledProviders, activeNotifications,
     beginCount, finishCount, lastHandled, orphaned, disposed, grammarScopes,
     grammarScopesSet, lintCalls, requests,
     editorLinters, paths,
     pendingItem, pendingElsewhere, aliveBuffers, timers, changeSubscriptions,
     lintOnChangeInterval, lastTrigger, notifications,
     messagesMap, messages,
     updateState, debounceArmed, lastPass, lastSet, flagEntry, flagLog, flagWindow, updateCall, lastDelete >>

\* buffer.isAlive()
BufferAlive(b) == b \in aliveBuffers

(***************************************************************************)
(* MessageRegistry (src/unnamed/part_002).                                 *)
(***************************************************************************)
\* _getKey(buffer, linter)
GetKey(buffer, linter) == << IF buffer # NULL THEN buffer ELSE "null", linter >>

EntryIndex(map, key) ==
  IF \E i \in 1..Len(map) : map[i].key = key
  THEN CHOOSE i \in 1..Len(map) : map[i].key = key
  ELSE 0

\* A faulty set(): the list of an existing bucket is replaced without the
\* bucket being flagged as changed.
SetEntryUnflagged(map, msgs, linter, buffer) ==
  LET key == GetKey(buffer, linter)
      i == EntryIndex(map, key)
  IN IF i # 0
     THEN [map EXCEPT ![i].messages = msgs]
     ELSE Append(map, [ key |-> key, messages |-> msgs, linter |-> linter,
                        buffer |-> buffer, oldMessages |-> <<>>,
                        changed |-> TRUE, deleted |-> FALSE ])

\* A faulty set(): a bucket that is marked deleted is revived by the new list.
SetEntryRevives(map, msgs, linter, buffer) ==
  LET key == GetKey(buffer, linter)
      i == EntryIndex(map, key)
  IN IF i # 0
     THEN [map EXCEPT ![i].messages = msgs, ![i].changed = TRUE, ![i].deleted = FALSE]
     ELSE Append(map, [ key |-> key, messages |-> msgs, linter |-> linter,
                        buffer |-> buffer, oldMessages |-> <<>>,
                        changed |-> TRUE, deleted |-> FALSE ])

\* A faulty set(): a list set on a bucket that holds a list no pass has met
\* is added to that list.
SetEntryAppends(map, msgs, linter, buffer) ==
  LET key == GetKey(buffer, linter)
      i == EntryIndex(map, key)
  IN IF i # 0
     THEN [map EXCEPT ![i].messages = IF map[i].changed THEN @ \o msgs ELSE msgs,
                      ![i].changed = TRUE]
     ELSE Append(map, [ key |-> key, messages |-> msgs, linter |-> linter,
                        buffer |-> buffer, oldMessages |-> <<>>,
                        changed |-> TRUE, deleted |-> FALSE ])

\* The body of set({ messages, linter, buffer }) on the Map.
SetEntry(map, msgs, linter, buffer) ==
  LET key == GetKey(buffer, linter)
      i == EntryIndex(map, key)
  IN IF i # 0
     THEN [map EXCEPT ![i].messages = msgs, ![i].changed = TRUE]
     ELSE Append(map, [ key |-> key, messages |-> msgs, linter |-> linter,
                        buffer |-> buffer, oldMessages |-> <<>>,
                        changed |-> TRUE, deleted |-> FALSE ])

\* A faulty clear operation: the matching entries are removed at once.
MarkDeletedNow(map, field, value) ==
  SelectSeq(map, LAMBDA entry : ~(field = "all" \/ entry[field] = value))

\* deleteByBuffer / deleteByLinter / deleteAll: mark the matching entries.
MarkDeleted(map, field, value) ==
  [i \in 1..Len(map) |->
     IF field = "all" \/ map[i][field] = value THEN [map[i] EXCEPT !.deleted = TRUE]
     ELSE map[i]]

RECURSIVE PassOver(_, _)
\* The loop of update() over the Map's entries, from the result so far:
\* acc = [added, removed, messages, kept], kept being the entries that stay.
PassOver(entries, acc) ==
  IF entries = <<>> THEN acc
  ELSE
    LET entry == Head(entries)
        flagged == flagMessages(entry.messages, entry.oldMessages)
        allThisEntry == flagged.newAdded \o flagged.oldKept
        next ==
          IF entry.deleted
          THEN [acc EXCEPT !.removed = @ \o entry.oldMessages]
          ELSE IF ~entry.changed
          THEN [acc EXCEPT !.messages = @ \o entry.oldMessages,
                           !.kept = Append(@, entry)]
          ELSE [ added    |-> acc.added \o flagged.newAdded,
                 removed  |-> acc.removed \o flagged.oldRemoved,
                 messages |-> acc.messages \o allThisEntry,
                 kept     |-> Append(acc.kept,
                                [entry EXCEPT !.changed = FALSE,
                                              !.oldMessages = allThisEntry]) ]
    IN PassOver(Tail(entries), next)

\* A faulty pass: the buckets that did not change since the last pass are
\* left out of the full list of the batch.
UpdateResultChangedOnly(map) ==
  LET start == [added |-> <<>>, removed |-> <<>>, messages |-> <<>>, kept |-> <<>>]
      full == PassOver(map, start)
      part == PassOver(SelectSeq(map, LAMBDA entry : entry.changed \/ entry.deleted), start)
  IN [full EXCEPT !.messages = part.messages]

\* A faulty pass: the buckets marked deleted are reported and left in the Map.
UpdateResultKeepsDeleted(map) ==
  LET full == PassOver(map, [added |-> <<>>, removed |-> <<>>, messages |-> <<>>,
                             kept |-> <<>>])
  IN [full EXCEPT !.kept = @ \o SelectSeq(map, LAMBDA entry : entry.deleted)]

UpdateResult(map) ==
  PassOver(map, [added |-> <<>>, removed |-> <<>>, messages |-> <<>>, kept |-> <<>>])

\* A faulty set(): the list is stored and no pass is scheduled.
StoreSetUnscheduled(msgs, linter, buffer) ==
  /\ messagesMap' = SetEntry(messagesMap, msgs, linter, buffer)
  /\ lastSet' = lastSet \cup {GetKey(buffer, linter)}
  /\ UNCHANGED << flagEntry, flagLog, flagWindow, updateCall, lastDelete >>
  /\ UNCHANGED << messages, updateState, lastPass, debounceArmed >>

\* set(): store the list in the bucket and schedule the debounced pass.
StoreSet(msgs, linter, buffer) ==
  /\ messagesMap' = SetEntry(messagesMap, msgs, linter, buffer)
  /\ debounceArmed' = TRUE
  /\ lastSet' = lastSet \cup {GetKey(buffer, linter)}
  /\ UNCHANGED << flagEntry, flagLog, flagWindow, updateCall, lastDelete >>
  /\ UNCHANGED << messages, updateState, lastPass >>

StoreDeleteByBuffer(buffer) ==
  /\ messagesMap' = MarkDeleted(messagesMap, "buffer", buffer)
  /\ debounceArmed' = TRUE
  /\ lastSet' = {key \in lastSet : key[1] # buffer}
  /\ UNCHANGED << flagEntry, flagLog, flagWindow, updateCall, lastDelete >>
  /\ UNCHANGED << messages, updateState, lastPass >>

StoreDeleteByLinter(linter) ==
  /\ messagesMap' = MarkDeleted(messagesMap, "linter", linter)
  /\ debounceArmed' = TRUE
  /\ lastSet' = {key \in lastSet : key[2] # linter}
  /\ UNCHANGED << flagEntry, flagLog, flagWindow, updateCall, lastDelete >>
  /\ UNCHANGED << messages, updateState, lastPass >>

\* A faulty update(): the batch is emitted whatever it holds.
UpdateEmitsAlways ==
  /\ debounceArmed
  /\ updateState = "idle"
  /\ LET result == UpdateResult(messagesMap)
     IN /\ messagesMap' = result.kept
        /\ messages' = result.messages
        /\ lastPass' = [ emitted |-> TRUE, added |-> result.added,
                         removed |-> result.removed, messages |-> result.messages ]
  /\ updateCall' = "out"
  /\ updateState' = "idle"
  /\ debounceArmed' = FALSE
  /\ lastSet' = {}
  /\ UNCHANGED << flagEntry, flagLog, flagWindow, lastDelete >>
  /\ UNCHANGED << registryVars, configVars, editorVars, lintCalls, requests, notifications >>

\* The debounce timer fires and runs update() (no pass is running: idle).
Update ==
  /\ debounceArmed
  /\ updateState = "idle"
  /\ LET result == UpdateResult(messagesMap)
         emit == result.added # <<>> \/ result.removed # <<>>
     IN /\ messagesMap' = result.kept
        /\ messages' = IF emit THEN result.messages ELSE messages
        /\ lastPass' = [ emitted |-> emit, added |-> result.added,
                         removed |-> result.removed, messages |-> result.messages ]
  /\ updateCall' = "out"
  /\ updateState' = "idle"
  /\ debounceArmed' = FALSE
  /\ lastSet' = {}
  /\ UNCHANGED << flagEntry, flagLog, flagWindow, lastDelete >>
  /\ UNCHANGED << registryVars, configVars, editorVars, lintCalls, requests, notifications >>

\* The debounce timer fires and update() runs up to and including the emit of
\* its batch: the listener of did-update-messages has control, inside the try
\* block, while updateState is "processing".
UpdateEmit ==
  /\ debounceArmed
  /\ updateState = "idle"
  /\ LET result == UpdateResult(messagesMap)
     IN /\ result.added # <<>> \/ result.removed # <<>>
        /\ messagesMap' = result.kept
        /\ messages' = result.messages
        /\ lastPass' = [ emitted |-> TRUE, added |-> result.added,
                         removed |-> result.removed, messages |-> result.messages ]
  /\ updateCall' = "emitting"
  /\ updateState' = "processing"
  /\ debounceArmed' = FALSE
  /\ lastSet' = {}
  /\ UNCHANGED << flagEntry, flagLog, flagWindow, lastDelete >>
  /\ UNCHANGED << registryVars, configVars, editorVars, lintCalls, requests, notifications >>

\* A faulty update(): a call made while a pass is running runs a pass too.
UpdateReentrant ==
  /\ updateState \in {"processing", "pending"}
  /\ LET result == UpdateResult(messagesMap)
         emit == result.added # <<>> \/ result.removed # <<>>
     IN /\ messagesMap' = result.kept
        /\ messages' = IF emit THEN result.messages ELSE messages
        /\ lastPass' = [ emitted |-> emit, added |-> result.added,
                         removed |-> result.removed, messages |-> result.messages ]
  /\ updateState' = "pending"
  /\ lastSet' = {}
  /\ UNCHANGED << flagEntry, flagLog, flagWindow, updateCall, lastDelete >>
  /\ UNCHANGED debounceArmed
  /\ UNCHANGED << registryVars, configVars, editorVars, lintCalls, requests, notifications >>

\* update() called while a pass is running (from the listener of the batch):
\* the switch on updateState returns before the try block.
UpdateWhileRunning ==
  /\ updateState \in {"processing", "pending"}
  /\ updateState' = "pending"
  /\ UNCHANGED << messagesMap, messages, debounceArmed, lastPass, lastSet, flagEntry,
                  flagLog, flagWindow, updateCall, lastDelete >>
  /\ UNCHANGED << registryVars, configVars, editorVars, lintCalls, requests, notifications >>

\* A faulty finally block: the pass that was asked for while this one ran is
\* not scheduled.
UpdateFinallyForgets ==
  /\ updateState \in {"processing", "pending"}
  /\ updateCall' = "out"
  /\ updateState' = "idle"
  /\ UNCHANGED << messagesMap, messages, debounceArmed, lastPass, lastSet, flagEntry,
                  flagLog, flagWindow, lastDelete >>
  /\ UNCHANGED << registryVars, configVars, editorVars, lintCalls, requests, notifications >>

\* The listener returns and the finally block of update() runs: a pass that
\* was asked for meanwhile is scheduled through the debounce.
UpdateFinally ==
  /\ updateState \in {"processing", "pending"}
  /\ updateCall' = "out"
  /\ updateState' = "idle"
  /\ debounceArmed' = (debounceArmed \/ updateState = "pending")
  /\ UNCHANGED << messagesMap, messages, lastPass, lastSet, flagEntry, flagLog, flagWindow, lastDelete >>
  /\ UNCHANGED << registryVars, configVars, editorVars, lintCalls, requests, notifications >>

\* A faulty update(): no finally block, so an exception thrown by a listener
\* leaves update() with updateState as it was.
UpdateThrowsUnguarded ==
  /\ updateState \in {"processing", "pending"}
  /\ updateCall' = "thrown"
  /\ UNCHANGED << messagesMap, messages, updateState, debounceArmed, lastPass, lastSet,
                  flagEntry, flagLog, flagWindow, lastDelete >>
  /\ UNCHANGED << registryVars, configVars, editorVars, lintCalls, requests, notifications >>

\* A listener of did-update-messages throws: emit() does not catch, the
\* exception leaves the try block, the finally block runs as it does on a
\* normal exit, and the exception goes on to the caller of update().
UpdateThrows ==
  /\ updateState \in {"processing", "pending"}
  /\ updateCall' = "thrown"
  /\ updateState' = "idle"
  /\ debounceArmed' = (debounceArmed \/ updateState = "pending")
  /\ UNCHANGED << messagesMap, messages, lastPass, lastSet, flagEntry, flagLog, flagWindow, lastDelete >>
  /\ UNCHANGED << registryVars, configVars, editorVars, lintCalls, requests, notifications >>

RECURSIVE RemoveFirst(_, _)
\* Array.prototype.indexOf and splice(idx, 1): the list without the first
\* occurrence of the object.
RemoveFirst(list, message) ==
  IF list = <<>> THEN <<>>
  ELSE IF Head(list) = message THEN Tail(list)
  ELSE << Head(list) >> \o RemoveFirst(Tail(list), message)

\* The entry deleteMessage() stops at: the first one in the Map's order that
\* is not deleted and has the object in oldMessages; 0 when there is none.
OwnerIndex(map, message) ==
  LET owners == {i \in 1..Len(map) :
                   /\ ~map[i].deleted
                   /\ \E k \in 1..Len(map[i].oldMessages) : map[i].oldMessages[k] = message}
  IN IF owners = {} THEN 0 ELSE CHOOSE i \in owners : \A j \in owners : i <= j

\* A faulty deleteMessage(): the object is taken out of the bucket and the
\* batch is left to the next debounced pass.
DeleteMessageDeferred(message) ==
  LET i == OwnerIndex(messagesMap, message)
  IN /\ lastDelete' = << [message |-> message, returned |-> i # 0] >>
     /\ IF i # 0
        THEN /\ messagesMap' = [messagesMap EXCEPT
                                  ![i].oldMessages = RemoveFirst(@, message)]
             /\ debounceArmed' = TRUE
             /\ UNCHANGED << messages, lastPass >>
        ELSE UNCHANGED << messagesMap, messages, lastPass, debounceArmed >>
     /\ UNCHANGED << updateState, lastSet, flagEntry, flagLog, flagWindow, updateCall >>
     /\ UNCHANGED << registryVars, configVars, editorVars, lintCalls, requests, notifications >>

\* deleteMessage(message).
DeleteMessage(message) ==
  LET i == OwnerIndex(messagesMap, message)
  IN /\ lastDelete' = << [message |-> message, returned |-> i # 0] >>
     /\ IF i # 0
        THEN /\ messagesMap' = [messagesMap EXCEPT
                                  ![i].oldMessages = RemoveFirst(@, message)]
             /\ messages' = SelectSeq(messages, LAMBDA other : other # message)
             /\ lastPass' = [ emitted |-> TRUE, added |-> <<>>, removed |-> << message >>,
                              messages |-> messages' ]
        ELSE UNCHANGED << messagesMap, messages, lastPass >>
     /\ UNCHANGED << updateState, debounceArmed, lastSet, flagEntry, flagLog, flagWindow,
                     updateCall >>
     /\ UNCHANGED << registryVars, configVars, editorVars, lintCalls, requests, notifications >>

\* set({ messages, linter, buffer }) called with an already normalized list
\* (the path of Linter.registryLintersInit and Linter.registryIndieInit).
Set(msgs, linter, buffer) ==
  /\ StoreSet(msgs, linter, buffer)
  /\ UNCHANGED << registryVars, configVars, editorVars, lintCalls, requests, notifications >>

DeleteByBuffer(buffer) ==
  /\ StoreDeleteByBuffer(buffer)
  /\ UNCHANGED << registryVars, configVars, editorVars, lintCalls, requests, notifications >>

DeleteByLinter(linter) ==
  /\ StoreDeleteByLinter(linter)
  /\ UNCHANGED << registryVars, configVars, editorVars, lintCalls, requests, notifications >>

\* deleteAll() (through Linter.clearAll).
DeleteAll ==
  /\ messagesMap' = MarkDeleted(messagesMap, "all", NULL)
  /\ debounceArmed' = TRUE
  /\ lastSet' = {}
  /\ UNCHANGED << flagEntry, flagLog, flagWindow, updateCall, lastDelete >>
  /\ UNCHANGED << messages, updateState, lastPass >>
  /\ UNCHANGED << registryVars, configVars, editorVars, lintCalls, requests, notifications >>

\* The entry of the bucket (b1, p1) once set(list) and the pass after it
\* have run on a new Map.
AcceptedEntry(list) ==
  [ key |-> GetKey("b1", "p1"), messages |-> list, linter |-> "p1", buffer |-> "b1",
    oldMessages |-> list, changed |-> FALSE, deleted |-> FALSE ]

\* set({ messages, linter, buffer }) on the bucket that is followed.
FlagSet(msgs, maxDiffs) ==
  /\ Len(flagLog) < maxDiffs
  /\ flagEntry' = SetEntry(<< flagEntry >>, msgs, flagEntry.linter, flagEntry.buffer)[1]
  /\ UNCHANGED << messagesMap, messages, updateState, debounceArmed, lastPass, lastSet,
                  flagLog, flagWindow, updateCall, lastDelete >>
  /\ UNCHANGED << registryVars, configVars, editorVars, lintCalls, requests, notifications >>

\* set({ messages, linter, buffer }) on the bucket that is followed, with the
\* window recorded: the list given, and the messages of the lists that were
\* set since the last pass and are replaced.
FlagSetInWindow(msgs, maxDiffs) ==
  /\ Len(flagLog) < maxDiffs
  /\ flagEntry' = SetEntry(<< flagEntry >>, msgs, flagEntry.linter, flagEntry.buffer)[1]
  /\ flagWindow' =
       [ last    |-> msgs,
         skipped |-> IF flagEntry.changed
                     THEN flagWindow.skipped
                            \cup {flagWindow.last[i] : i \in 1..Len(flagWindow.last)}
                     ELSE {} ]
  /\ UNCHANGED << messagesMap, messages, updateState, debounceArmed, lastPass, lastSet,
                  flagLog, updateCall, lastDelete >>
  /\ UNCHANGED << registryVars, configVars, editorVars, lintCalls, requests, notifications >>

\* The pass of update() over the bucket that is followed: what flagMessages
\* was given, what the batch reports and what the entry keeps are logged.
FlagPass(maxDiffs) ==
  /\ Len(flagLog) < maxDiffs
  /\ flagEntry.changed
  /\ LET result == UpdateResult(<< flagEntry >>)
     IN /\ flagEntry' = result.kept[1]
        /\ flagLog' = Append(flagLog,
                             [ inputs      |-> flagEntry.messages,
                               oldMessages |-> flagEntry.oldMessages,
                               added       |-> result.added,
                               removed     |-> result.removed,
                               messages    |-> result.messages,
                               accepted    |-> result.kept[1].oldMessages ])
  /\ UNCHANGED << messagesMap, messages, updateState, debounceArmed, lastPass, lastSet,
                  flagWindow, updateCall, lastDelete >>
  /\ UNCHANGED << registryVars, configVars, editorVars, lintCalls, requests, notifications >>

(***************************************************************************)
(* LinterRegistry (src/lib/toggle-view.js, lines 221-465) and helpers.     *)
(***************************************************************************)
\* Default timeout for linter execution.
LINTER_TIMEOUT_MS == 30000

\* The rejection of createTimeoutPromise(ms, linterName).
TimeoutError(ms, linterName) == << "timed out", linterName, ms >>

\* What a provider's own failure (rejection or synchronous throw) carries.
ProviderError(linterName) == << "failed", linterName >>

\* helpers.js getEditorCursorScopes: "*" and every cursor's scopes (a destroyed
\* editor has no cursors).
getEditorCursorScopes(e) ==
  {"*"} \cup (IF e \in editorLinters THEN UNION CursorScopes(e) ELSE {})

\* helpers.js shouldTriggerLinter
shouldTriggerLinter(linter, wasTriggeredOnChange, scopes) ==
  IF wasTriggeredOnChange /\ ~LintsOnChange(linter)
  THEN FALSE
  ELSE LET scopeSet == grammarScopesSet[linter]
       IN IF scopeSet.has
          THEN \E scope \in scopes : scope \in scopeSet.set
          ELSE \E scope \in scopes : scope \in grammarScopes[linter]

\* helpers.js isPathIgnored
isPathIgnored(filePath, ignoredGlob, ignoredVCS) ==
  IF filePath = "" THEN TRUE
  ELSE IF ignoredVCS /\ RepositoryIgnores(filePath) THEN TRUE
  ELSE Minimatch(filePath, ignoredGlob)

\* The condition under which lint() returns false before looking at any
\* provider, with the gate that closed ("open" when none did).
LintGate(e, onChange) ==
  IF onChange /\ ~lintOnChange THEN "onChange"
  ELSE IF ~lintPreviewTabs /\ pendingItem = e THEN "preview"
  ELSE IF isPathIgnored(paths[e], ignoreGlob, ignoreVCS) THEN "ignored"
  ELSE "open"

\* The providers the loop of lint() invokes.
EligibleLinters(e, onChange) ==
  { linter \in linters :
      /\ shouldTriggerLinter(linter, onChange, getEditorCursorScopes(e))
      /\ linter \notin disabledProviders }

\* The request lint() creates for one provider.
NewRequest(linter, e, promises) ==
  [ linter      |-> linter,
    fanOut      |-> promises, \* the providers in the promises array of the call
    number      |-> requestLatest[linter] + 1,
    buffer      |-> IF LinterScope(linter) = "file" THEN BufferOf(e) ELSE NULL,
    raceSettled |-> FALSE,   \* Promise.race has settled and its handler has run
    lintPending |-> TRUE,    \* linter.lint(editor) has not settled
    timerArmed  |-> TRUE ]   \* the setTimeout of createTimeoutPromise has not fired

\* What linter.lint(editor) may resolve with: null (or undefined), a value
\* that is not an array, or an array of messages.
NullResult == [type |-> "null", items |-> <<>>]

NotArrayResult == [type |-> "other", items |-> <<>>]

ArrayResult(items) == [type |-> "array", items |-> items]

\* The message lists a provider may resolve with for a request.
ResultLists(number) ==
  { <<>>,
    << RawMessage("E1", "", NULL, number) >>,
    << RawMessage("E1", "", "", number), RawMessage("E2", "", "bug", number) >> }

Outcomes(number) ==
  {ArrayResult(items) : items \in ResultLists(number)} \cup {NullResult, NotArrayResult}

IsArray(value) == value.type = "array"

atomInDevMode == FALSE

\* validate.js messages(linterName, messages): an array of well-formed messages.
ValidateMessages(linterName, value) == IsArray(value)

\* A faulty commit gate: first-to-finish-wins (no request number check).
ResultDiscardedNoFreshness(request) ==
  \/ ~activated[request.linter]
  \/ (request.buffer # NULL /\ ~BufferAlive(request.buffer))

\* A faulty commit gate: no check of the provider's registration or of the
\* buffer's liveness.
ResultDiscardedNoLiveness(request) ==
  requestLastReceived[request.linter] >= request.number

\* A faulty commit gate: a result waits for the other providers (it is dropped
\* while a request of another provider is pending).
ResultDiscardedWhilePending(request) ==
  \/ requestLastReceived[request.linter] >= request.number
  \/ ~activated[request.linter]
  \/ (request.buffer # NULL /\ ~BufferAlive(request.buffer))
  \/ \E other \in requests : other.linter # request.linter /\ ~other.raceSettled

\* A faulty commit gate: freshness is judged per (provider, document), against
\* the requests of the same document that have been handled.
ResultDiscardedPerDocument(request) ==
  \/ \E other \in requests :
       /\ other.linter = request.linter /\ other.buffer = request.buffer
       /\ other.raceSettled /\ other.number >= request.number
  \/ ~activated[request.linter]
  \/ (request.buffer # NULL /\ ~BufferAlive(request.buffer))

\* The commit gate of the fulfilment handler: TRUE when the result is dropped.
ResultDiscarded(request) ==
  \/ requestLastReceived[request.linter] >= request.number
  \/ ~activated[request.linter]
  \/ (request.buffer # NULL /\ ~BufferAlive(request.buffer))

\* A faulty handler: the result is not validated before it is pushed.
ResultCommittedUnvalidated(linter, value) == value.type # "null"

\* Whether the handler, past the gate, emits did-update-messages for value.
ResultCommitted(linter, value) ==
  /\ value.type # "null"
  /\ (IF atomInDevMode \/ ~IsArray(value) THEN ValidateMessages(linter, value) ELSE TRUE)

\* A faulty addLinter: the request counters of the provider start again at 0.
AddLinterResets(linter) ==
  /\ linter \notin linters
  /\ activated' = [activated EXCEPT ![linter] = TRUE]
  /\ requestLatest' = [requestLatest EXCEPT ![linter] = 0]
  /\ requestLastReceived' = [requestLastReceived EXCEPT ![linter] = 0]
  /\ grammarScopesSet' =
       [grammarScopesSet EXCEPT ![linter] = [has |-> TRUE, set |-> grammarScopes[linter]]]
  /\ linters' = linters \cup {linter}
  /\ UNCHANGED << activeNotifications, beginCount,
                  finishCount, lastHandled, orphaned, disposed, grammarScopes, configVars,
                  editorVars, storeVars, lintCalls, requests, notifications >>

\* addLinter(linter) (through Linter.addLinter).
AddLinter(linter) ==
  /\ linter \notin linters
  /\ activated' = [activated EXCEPT ![linter] = TRUE]
  /\ grammarScopesSet' =
       [grammarScopesSet EXCEPT ![linter] = [has |-> TRUE, set |-> grammarScopes[linter]]]
  /\ linters' = linters \cup {linter}
  /\ UNCHANGED << requestLatest, requestLastReceived, activeNotifications, beginCount,
                  finishCount, lastHandled, orphaned, disposed, grammarScopes, configVars,
                  editorVars, storeVars, lintCalls, requests, notifications >>

\* The requests of a provider whose race is still undecided.
InFlight(linter) ==
  {request \in requests : request.linter = linter /\ ~request.raceSettled}

RequestId(request) == << request.linter, request.number >>

\* The provider rewrites its grammarScopes array in place (as a provider whose
\* scopes are configurable does when its configuration changes).
ChangeGrammarScopes(linter, scopes) ==
  /\ grammarScopes[linter] # scopes
  /\ grammarScopes' = [grammarScopes EXCEPT ![linter] = scopes]
  /\ UNCHANGED << linters, activated, requestLatest, requestLastReceived,
                  activeNotifications, beginCount, finishCount, lastHandled, orphaned,
                  disposed, grammarScopesSet, configVars, editorVars, storeVars,
                  lintCalls, requests, notifications >>

\* Linter.deleteLinter(linter): LinterRegistry.deleteLinter, then
\* MessageRegistry.deleteByLinter.
DeleteLinter(linter) ==
  /\ linter \in linters
  /\ activated' = [activated EXCEPT ![linter] = FALSE]
  /\ linters' = linters \ {linter}
  /\ StoreDeleteByLinter(linter)
  /\ orphaned' = orphaned \cup {RequestId(request) : request \in InFlight(linter)}
  /\ UNCHANGED << requestLatest, requestLastReceived, activeNotifications, beginCount,
                  finishCount, lastHandled, disposed, providerVars, configVars, editorVars,
                  lintCalls, requests, notifications >>

\* The synchronous part of lint({ onChange, editor }): the gates are
\* evaluated and the call is suspended at `await isPathIgnored`.
LintBegin(e, onChange, maxCalls) ==
  /\ Cardinality(lintCalls) < maxCalls
  /\ LET call == [editor |-> e, onChange |-> onChange, gate |-> LintGate(e, onChange)]
     IN /\ call \notin lintCalls
        /\ lintCalls' = lintCalls \cup {call}

\* lint({ onChange, editor }) up to its first suspension: the gates.
LintStart(e, onChange, maxCalls) ==
  /\ e \in editorLinters
  /\ LintBegin(e, onChange, maxCalls)
  /\ UNCHANGED << registryVars, configVars, editorVars, storeVars, requests, notifications >>

\* lint() returns false: a gate was closed.
LintReturnFalse(call) ==
  /\ call \in lintCalls
  /\ call.gate # "open"
  /\ lintCalls' = lintCalls \ {call}
  /\ UNCHANGED << registryVars, configVars, editorVars, storeVars, requests, notifications >>

\* lint() resumes after `await isPathIgnored` and runs its loop over the linters.
LintFanOut(call, maxRequest) ==
  /\ call \in lintCalls
  /\ call.gate = "open"
  /\ LET eligible == EligibleLinters(call.editor, call.onChange)
     IN /\ \A linter \in eligible : requestLatest[linter] < maxRequest
        /\ requestLatest' =
             [l \in Providers |-> IF l \in eligible THEN requestLatest[l] + 1
                                  ELSE requestLatest[l]]
        /\ beginCount' =
             [l \in Providers |-> IF l \in eligible /\ ~disposed THEN beginCount[l] + 1
                                  ELSE beginCount[l]]
        /\ requests' = requests \cup {NewRequest(l, call.editor, eligible) : l \in eligible}
  /\ lintCalls' = lintCalls \ {call}
  /\ UNCHANGED << linters, activated, requestLastReceived, activeNotifications,
                  finishCount, lastHandled, orphaned, disposed, providerVars, configVars,
                  editorVars, storeVars, notifications >>

\* What is left of a request once one more of its two parties is through.
AfterLint(request) == [request EXCEPT !.raceSettled = TRUE, !.lintPending = FALSE]

AfterTimer(request) == [request EXCEPT !.raceSettled = TRUE, !.timerArmed = FALSE]

Outstanding(request) == request.lintPending \/ request.timerArmed

Replace(request, after) ==
  (requests \ {request}) \cup (IF Outstanding(after) THEN {after} ELSE {})

\* How the handler of a request's race ended: "discarded" at the gate,
\* "dropped" past the gate without a commit, "committed", or "failed" (the
\* rejection handler); and what the race settled with: the type of the value,
\* or the kind of the error.
Handled(request, how, result) ==
  [linter |-> request.linter, number |-> request.number, how |-> how, result |-> result]

\* An event counter after emitter.emit: the disposed emitter has no handlers.
Emitted(count, linter) ==
  IF disposed THEN count ELSE [count EXCEPT ![linter] = @ + 1]

\* A faulty fulfilment handler: a result that is null or fails validation
\* returns before the accepted request number is advanced.
OnFulfilledEmptyKeepsNumber(request, value) ==
  LET linter == request.linter
  IN /\ finishCount' = Emitted(finishCount, linter)
     /\ orphaned' = orphaned \ {RequestId(request)}
     /\ IF ResultDiscarded(request)
        THEN /\ lastHandled' = Handled(request, "discarded", value.type)
             /\ UNCHANGED << requestLastReceived, storeVars >>
        ELSE IF ResultCommitted(linter, value) /\ ~disposed
             THEN /\ requestLastReceived' =
                       [requestLastReceived EXCEPT ![linter] = request.number]
                  /\ lastHandled' = Handled(request, "committed", value.type)
                  /\ StoreSet(normalizeMessages(linter, value.items), linter,
                              request.buffer)
             ELSE /\ lastHandled' = Handled(request, "dropped", value.type)
                  /\ UNCHANGED << requestLastReceived, storeVars >>
     /\ UNCHANGED << activeNotifications, notifications >>

\* The fulfilment handler of the race (toggle-view.js lines 355-388).
OnFulfilled(request, value) ==
  LET linter == request.linter
  IN /\ finishCount' = Emitted(finishCount, linter)
     /\ orphaned' = orphaned \ {RequestId(request)}
     /\ IF ResultDiscarded(request)
        THEN /\ lastHandled' = Handled(request, "discarded", value.type)
             /\ UNCHANGED << requestLastReceived, storeVars >>
        ELSE /\ requestLastReceived' = [requestLastReceived EXCEPT ![linter] = request.number]
             /\ IF ResultCommitted(linter, value) /\ ~disposed
                THEN /\ lastHandled' = Handled(request, "committed", value.type)
                     /\ StoreSet(normalizeMessages(linter, value.items), linter,
                                 request.buffer)
                ELSE /\ lastHandled' = Handled(request, "dropped", value.type)
                     /\ UNCHANGED storeVars
     /\ UNCHANGED << activeNotifications, notifications >>

\* A faulty rejection handler: a failure makes the pending results of every
\* provider stale.
OnRejectedStalesAll(request, error) ==
  LET linter == request.linter
  IN /\ finishCount' = Emitted(finishCount, linter)
     /\ lastHandled' = Handled(request, "failed", error[1])
     /\ orphaned' = orphaned \ {RequestId(request)}
     /\ IF linter \in activeNotifications
        THEN UNCHANGED << activeNotifications, notifications >>
        ELSE /\ notifications' = [notifications EXCEPT ![linter] = Append(@, error)]
             /\ activeNotifications' = activeNotifications \cup {linter}
     /\ requestLastReceived' = requestLatest
     /\ UNCHANGED storeVars

\* A faulty rejection handler: a failure empties the provider's bucket.
OnRejectedClears(request, error) ==
  LET linter == request.linter
  IN /\ finishCount' = Emitted(finishCount, linter)
     /\ lastHandled' = Handled(request, "failed", error[1])
     /\ orphaned' = orphaned \ {RequestId(request)}
     /\ IF linter \in activeNotifications
        THEN UNCHANGED << activeNotifications, notifications >>
        ELSE /\ notifications' = [notifications EXCEPT ![linter] = Append(@, error)]
             /\ activeNotifications' = activeNotifications \cup {linter}
     /\ StoreSet(<<>>, linter, request.buffer)
     /\ UNCHANGED requestLastReceived

\* A faulty rejection handler: a failed request emits no did-finish-linting.
OnRejectedSilent(request, error) ==
  LET linter == request.linter
  IN /\ UNCHANGED finishCount
     /\ lastHandled' = Handled(request, "failed", error[1])
     /\ orphaned' = orphaned \ {RequestId(request)}
     /\ IF linter \in activeNotifications
        THEN UNCHANGED << activeNotifications, notifications >>
        ELSE /\ notifications' = [notifications EXCEPT ![linter] = Append(@, error)]
             /\ activeNotifications' = activeNotifications \cup {linter}
     /\ UNCHANGED << requestLastReceived, storeVars >>

\* A faulty rejection handler: a failed request counts as the latest result
\* received.
OnRejectedAdvances(request, error) ==
  LET linter == request.linter
  IN /\ finishCount' = Emitted(finishCount, linter)
     /\ lastHandled' = Handled(request, "failed", error[1])
     /\ orphaned' = orphaned \ {RequestId(request)}
     /\ IF linter \in activeNotifications
        THEN UNCHANGED << activeNotifications, notifications >>
        ELSE /\ notifications' = [notifications EXCEPT ![linter] = Append(@, error)]
             /\ activeNotifications' = activeNotifications \cup {linter}
     /\ requestLastReceived' =
          [requestLastReceived EXCEPT
             ![linter] = IF @ >= request.number THEN @ ELSE request.number]
     /\ UNCHANGED storeVars

\* The rejection handler of the race (toggle-view.js lines 389-438).
OnRejected(request, error) ==
  LET linter == request.linter
  IN /\ finishCount' = Emitted(finishCount, linter)
     /\ lastHandled' = Handled(request, "failed", error[1])
     /\ orphaned' = orphaned \ {RequestId(request)}
     /\ IF linter \in activeNotifications
        THEN UNCHANGED << activeNotifications, notifications >>
        ELSE /\ notifications' = [notifications EXCEPT ![linter] = Append(@, error)]
             /\ activeNotifications' = activeNotifications \cup {linter}
     /\ UNCHANGED << requestLastReceived, storeVars >>

\* linter.lint(editor) resolves before the timeout.
LintFulfilled(request, value) ==
  /\ request \in requests
  /\ request.lintPending /\ ~request.raceSettled
  /\ OnFulfilled(request, value)
  /\ requests' = Replace(request, AfterLint(request))
  /\ UNCHANGED << linters, activated, requestLatest, beginCount, disposed, providerVars,
                  configVars, editorVars, lintCalls >>

\* linter.lint(editor) rejects, or throws synchronously, before the timeout.
LintRejected(request) ==
  /\ request \in requests
  /\ request.lintPending /\ ~request.raceSettled
  /\ OnRejected(request, ProviderError(request.linter))
  /\ requests' = Replace(request, AfterLint(request))
  /\ UNCHANGED << linters, activated, requestLatest, beginCount, disposed, providerVars,
                  configVars, editorVars, lintCalls >>

\* The timer of createTimeoutPromise fires before linter.lint(editor) settles.
TimeoutFired(request) ==
  /\ request \in requests
  /\ request.timerArmed /\ ~request.raceSettled
  /\ OnRejected(request, TimeoutError(LINTER_TIMEOUT_MS, request.linter))
  /\ requests' = Replace(request, AfterTimer(request))
  /\ UNCHANGED << linters, activated, requestLatest, beginCount, disposed, providerVars,
                  configVars, editorVars, lintCalls >>

\* A faulty late settlement: the provider's result is handled although the
\* timeout has won the race.
LateSettleHandled(request) ==
  /\ request \in requests
  /\ request.lintPending /\ request.raceSettled
  /\ OnFulfilled(request, ArrayResult(<<>>))
  /\ requests' = Replace(request, AfterLint(request))
  /\ UNCHANGED << linters, activated, requestLatest, beginCount, disposed, providerVars,
                  configVars, editorVars, lintCalls >>

\* linter.lint(editor) settles (either way) after the timeout won the race.
LateSettle(request) ==
  /\ request \in requests
  /\ request.lintPending /\ request.raceSettled
  /\ requests' = Replace(request, AfterLint(request))
  /\ UNCHANGED << registryVars, configVars, editorVars, storeVars, lintCalls, notifications >>

\* The timer fires after linter.lint(editor) won the race.
LateTimeout(request) ==
  /\ request \in requests
  /\ request.timerArmed /\ request.raceSettled
  /\ requests' = Replace(request, AfterTimer(request))
  /\ UNCHANGED << registryVars, configVars, editorVars, storeVars, lintCalls, notifications >>

\* The user dismisses the provider's open error notification: its
\* onDidDismiss callback removes the key.
DismissNotification(name) ==
  /\ notifications[name] # <<>>
  /\ notifications' = [notifications EXCEPT ![name] = Tail(@)]
  /\ activeNotifications' = activeNotifications \ {name}
  /\ UNCHANGED << linters, activated, requestLatest, requestLastReceived, beginCount,
                  finishCount, lastHandled, orphaned, disposed, providerVars, configVars,
                  editorVars, storeVars, lintCalls, requests >>

\* ToggleView.toggle(name) (src/lib/main.js) with the did-disable listener of
\* Linter: disabling a registered provider also deletes its messages.
ToggleProvider(name) ==
  /\ name \in linters
  /\ IF name \notin disabledProviders
     THEN /\ disabledProviders' = disabledProviders \cup {name}
          /\ StoreDeleteByLinter(name)
     ELSE /\ disabledProviders' = disabledProviders \ {name}
          /\ UNCHANGED storeVars
  /\ UNCHANGED << registryVars, lintOnChange, lintPreviewTabs, ignoreVCS, ignoreGlob,
                  lintOnChangeInterval, editorVars, lintCalls, requests, notifications >>

(***************************************************************************)
(* EditorLinter (src/lib/editor-linter.js) and EditorRegistry.  A pending   *)
(* debounce timer is a record: the editor of the EditorLinter that owns it, *)
(* its kind ("change": currentDebouncedChangeHandler, "save": debouncedLint)*)
(* whether a trailing invocation is due when it expires, and whether its    *)
(* EditorLinter is live (not disposed).                                     *)
(***************************************************************************)
DEBOUNCE_SAVE_MS == 50

DEBOUNCE_CHANGE_DEFAULT_MS == 300

Timer(e, kind, trailing, live) ==
  [editor |-> e, kind |-> kind, trailing |-> trailing, live |-> live]

\* The pending timer of that kind of the live EditorLinter of e, if any.
LiveTimers(e, kind) == {t \in timers : t.editor = e /\ t.kind = kind /\ t.live}

\* The values the lintOnChangeInterval setting takes.
Intervals == {DEBOUNCE_CHANGE_DEFAULT_MS, 100}

\* A buffer.onDidChange subscription of the debounced change handler that
\* the EditorLinter of e built with this interval.
ChangeSubscription(e, interval) == [editor |-> e, interval |-> interval]

\* A faulty observer of lintOnChangeInterval: the new handler is subscribed
\* and the previous subscription is left in place.
observeIntervalKeepsOld(subscriptions, e, interval) ==
  subscriptions \cup {ChangeSubscription(e, interval)}

\* The observer of lintOnChangeInterval in the EditorLinter of e: the
\* previous subscription is disposed and the new handler subscribed.
observeInterval(subscriptions, e, interval) ==
  {s \in subscriptions : s.editor # e} \cup {ChangeSubscription(e, interval)}

\* emitter.emit("should-lint", onChange) on a live EditorLinter: the listener
\* of Linter.registryEditorsInit calls registryLinters.lint({onChange, editor}).
ShouldLint(e, onChange, cause, maxCalls) ==
  /\ LintBegin(e, onChange, maxCalls)
  /\ lastTrigger' = [editor |-> e, onChange |-> onChange, cause |-> cause]

\* buffer.onDidChange calls the debounced change handler of e's EditorLinter:
\* the trailing timer is (re)started.
Change(e) ==
  /\ e \in editorLinters
  /\ timers' = timers \cup {Timer(e, "change", TRUE, TRUE)}
  /\ UNCHANGED << changeSubscriptions, editorLinters, paths, pendingItem, pendingElsewhere,
                  aliveBuffers,
                  lastTrigger >>
  /\ UNCHANGED << registryVars, configVars, storeVars, lintCalls, requests, notifications >>

\* The change debounce expires: should-lint(true).
ChangeTimerFired(e, maxCalls) ==
  /\ Timer(e, "change", TRUE, TRUE) \in timers
  /\ timers' = timers \ {Timer(e, "change", TRUE, TRUE)}
  /\ ShouldLint(e, TRUE, "change", maxCalls)
  /\ UNCHANGED << changeSubscriptions, editorLinters, paths, pendingItem, pendingElsewhere,
                  aliveBuffers >>
  /\ UNCHANGED << registryVars, configVars, storeVars, requests, notifications >>

\* A faulty save trigger: while the change debounce of the editor is pending
\* a save is only kept for the trailing edge.
SaveBehindChange(e, maxCalls) ==
  /\ e \in editorLinters
  /\ IF LiveTimers(e, "save") = {} /\ LiveTimers(e, "change") = {}
     THEN /\ timers' = timers \cup {Timer(e, "save", FALSE, TRUE)}
          /\ ShouldLint(e, FALSE, "save", maxCalls)
     ELSE /\ timers' = (timers \ LiveTimers(e, "save")) \cup {Timer(e, "save", TRUE, TRUE)}
          /\ UNCHANGED << lintCalls, lastTrigger >>
  /\ UNCHANGED << changeSubscriptions, editorLinters, paths, pendingItem, pendingElsewhere,
                  aliveBuffers >>
  /\ UNCHANGED << registryVars, configVars, storeVars, requests, notifications >>

\* editor.onDidSave or buffer.onDidReload calls debouncedLint (leading and
\* trailing edge): with no timer pending the function is invoked at once and
\* the timer started; with a timer pending the call is kept for the trailing
\* edge and the wait starts again.
Save(e, maxCalls) ==
  /\ e \in editorLinters
  /\ IF LiveTimers(e, "save") = {}
     THEN /\ timers' = timers \cup {Timer(e, "save", FALSE, TRUE)}
          /\ ShouldLint(e, FALSE, "save", maxCalls)
     ELSE /\ timers' = (timers \ LiveTimers(e, "save")) \cup {Timer(e, "save", TRUE, TRUE)}
          /\ UNCHANGED << lintCalls, lastTrigger >>
  /\ UNCHANGED << changeSubscriptions, editorLinters, paths, pendingItem, pendingElsewhere,
                  aliveBuffers >>
  /\ UNCHANGED << registryVars, configVars, storeVars, requests, notifications >>

\* A faulty emitter: the trailing invocation of debouncedLint is delivered
\* although its EditorLinter is disposed.
SaveTimerFiredAfterDispose(t, maxCalls) ==
  /\ t \in timers
  /\ t.kind = "save"
  /\ timers' = timers \ {t}
  /\ IF t.trailing
     THEN ShouldLint(t.editor, FALSE, "save-trailing", maxCalls)
     ELSE UNCHANGED << lintCalls, lastTrigger >>
  /\ UNCHANGED << changeSubscriptions, editorLinters, paths, pendingItem, pendingElsewhere,
                  aliveBuffers >>
  /\ UNCHANGED << registryVars, configVars, storeVars, requests, notifications >>

\* The save debounce expires: the function is invoked if a call is kept for
\* the trailing edge; its emit reaches no listener once the EditorLinter is
\* disposed (dispose() does not cancel debouncedLint).
SaveTimerFired(t, maxCalls) ==
  /\ t \in timers
  /\ t.kind = "save"
  /\ timers' = timers \ {t}
  /\ IF t.trailing /\ t.live
     THEN ShouldLint(t.editor, FALSE, "save-trailing", maxCalls)
     ELSE UNCHANGED << lintCalls, lastTrigger >>
  /\ UNCHANGED << changeSubscriptions, editorLinters, paths, pendingItem, pendingElsewhere,
                  aliveBuffers >>
  /\ UNCHANGED << registryVars, configVars, storeVars, requests, notifications >>

\* A faulty lint(onChange): the trigger goes through the change debounce.
LintDebounced(e, onChange, maxCalls) ==
  /\ e \in editorLinters
  /\ timers' = timers \cup {Timer(e, "change", TRUE, TRUE)}
  /\ lastTrigger' = [editor |-> e, onChange |-> onChange, cause |-> "lint"]
  /\ UNCHANGED << changeSubscriptions, editorLinters, paths, pendingItem, pendingElsewhere,
                  aliveBuffers,
                  lintCalls >>
  /\ UNCHANGED << registryVars, configVars, storeVars, requests, notifications >>

\* EditorLinter.lint(onChange), from the lint command.
Lint(e, onChange, maxCalls) ==
  /\ e \in editorLinters
  /\ ShouldLint(e, onChange, "lint", maxCalls)
  /\ UNCHANGED << changeSubscriptions, editorLinters, paths, pendingItem, pendingElsewhere,
                  aliveBuffers,
                  timers >>
  /\ UNCHANGED << registryVars, configVars, storeVars, requests, notifications >>

\* What EditorLinter.dispose() leaves of the timers, for the disposed
\* EditorLinters of these editors: the change handler is cancelled,
\* debouncedLint is not and its timer outlives its EditorLinter.
DisposedTimers(all, editors) ==
  { IF t.editor \in editors THEN [t EXCEPT !.live = FALSE] ELSE t :
      t \in {u \in all : ~(u.editor \in editors /\ u.live /\ u.kind = "change")} }

\* EditorRegistry.createFromTextEditor for an editor that is not being
\* linted (a new pane on an open document, or linting toggled on).
CreateFromTextEditor(e, lintOnOpen, maxCalls) ==
  /\ e \notin editorLinters
  /\ BufferAlive(BufferOf(e))
  /\ editorLinters' = editorLinters \cup {e}
  /\ IF lintOnOpen
     THEN ShouldLint(e, FALSE, "open", maxCalls)
     ELSE UNCHANGED << lintCalls, lastTrigger >>
  /\ changeSubscriptions' =
       observeInterval(changeSubscriptions \cup {ChangeSubscription(e, lintOnChangeInterval)},
                       e, lintOnChangeInterval)
  /\ UNCHANGED << paths, pendingItem, pendingElsewhere, aliveBuffers, timers >>
  /\ UNCHANGED << registryVars, configVars, storeVars, requests, notifications >>

\* The lintOnChangeInterval setting changes: the observer of every live
\* EditorLinter cancels its change handler and replaces it and its
\* subscription.
ChangeInterval(interval) ==
  /\ interval # lintOnChangeInterval
  /\ lintOnChangeInterval' = interval
  /\ timers' = {t \in timers : ~(t.editor \in editorLinters /\ t.live /\ t.kind = "change")}
  /\ changeSubscriptions' =
       { s \in changeSubscriptions : s.editor \notin editorLinters }
         \cup UNION { observeInterval({s \in changeSubscriptions : s.editor = e}, e, interval) :
                      e \in editorLinters }
  /\ UNCHANGED << editorLinters, paths, pendingItem, pendingElsewhere, aliveBuffers,
                  lastTrigger >>
  /\ UNCHANGED << registryVars, lintOnChange, lintPreviewTabs, ignoreVCS, ignoreGlob,
                  disabledProviders, storeVars, lintCalls, requests, notifications >>

\* Linter.dispose(): its subscriptions are disposed in the order they were
\* added. EditorRegistry.dispose() destroys every EditorLinter, whose buffer's
\* messages are deleted; LinterRegistry.dispose() clears the notification keys
\* and the linters and disposes the emitter; MessageRegistry.dispose() cancels
\* the debounced update.
Dispose ==
  /\ ~disposed
  /\ disposed' = TRUE
  /\ activeNotifications' = {}
  /\ linters' = {}
  /\ editorLinters' = {}
  /\ messagesMap' =
       [i \in 1..Len(messagesMap) |->
          IF \E e \in editorLinters : messagesMap[i].buffer = BufferOf(e)
          THEN [messagesMap[i] EXCEPT !.deleted = TRUE]
          ELSE messagesMap[i]]
  /\ debounceArmed' = FALSE
  /\ lastSet' = {key \in lastSet : \A e \in editorLinters : key[1] # BufferOf(e)}
  /\ UNCHANGED << flagEntry, flagLog, flagWindow, updateCall, lastDelete >>
  /\ timers' = DisposedTimers(timers, editorLinters)
  /\ changeSubscriptions' = {s \in changeSubscriptions : s.editor \notin editorLinters}
  /\ UNCHANGED lastTrigger
  /\ UNCHANGED << activated, requestLatest, requestLastReceived, beginCount, finishCount,
                  lastHandled, orphaned, providerVars, configVars, paths, pendingItem,
                  pendingElsewhere, aliveBuffers,
                  lintCalls, requests, notifications, messages, updateState, lastPass >>

\* A faulty hasSibling: the editor that is being destroyed counts as well.
hasSiblingOrSelf(e, registered) ==
  \E item \in registered \cup {e} : BufferOf(item) = BufferOf(e)

\* EditorRegistry.hasSibling, evaluated once the destroyed editor is unregistered.
hasSibling(e, registered) == \E item \in registered : BufferOf(item) = BufferOf(e)

\* The editor is destroyed: EditorLinter.dispose() emits did-destroy, the
\* registry forgets the editor and Linter deletes the buffer's messages
\* unless a sibling editor shows the same buffer.
DestroyEditor(e) ==
  /\ e \in editorLinters
  /\ editorLinters' = editorLinters \ {e}
  /\ aliveBuffers' = IF hasSibling(e, editorLinters') THEN aliveBuffers
                     ELSE aliveBuffers \ {BufferOf(e)}
  /\ pendingItem' = IF pendingItem = e THEN NULL ELSE pendingItem
  /\ pendingElsewhere' = pendingElsewhere \ {e}
  /\ timers' = DisposedTimers(timers, {e})
  /\ changeSubscriptions' = {s \in changeSubscriptions : s.editor # e}
  /\ UNCHANGED lastTrigger
  /\ IF ~hasSibling(e, editorLinters')
     THEN StoreDeleteByBuffer(BufferOf(e))
     ELSE UNCHANGED storeVars
  /\ UNCHANGED << registryVars, configVars, paths, lintCalls, requests, notifications >>

\* Linting is toggled off for the editor (Linter's toggle-active-editor
\* command): EditorLinter.dispose() as above, the editor and its buffer stay.
ToggleOff(e) ==
  /\ e \in editorLinters
  /\ editorLinters' = editorLinters \ {e}
  /\ timers' = DisposedTimers(timers, {e})
  /\ changeSubscriptions' = {s \in changeSubscriptions : s.editor # e}
  /\ IF ~hasSibling(e, editorLinters')
     THEN StoreDeleteByBuffer(BufferOf(e))
     ELSE UNCHANGED storeVars
  /\ UNCHANGED << paths, pendingItem, pendingElsewhere, aliveBuffers, lastTrigger >>
  /\ UNCHANGED << registryVars, configVars, lintCalls, requests, notifications >>

(***************************************************************************)
(* Initial states.                                                         *)
(***************************************************************************)
InitRegistry ==
  /\ linters = {}
  /\ activated = [p \in Providers |-> FALSE]
  /\ requestLatest = [p \in Providers |-> 0]
  /\ requestLastReceived = [p \in Providers |-> 0]
  /\ activeNotifications = {}
  /\ beginCount = [p \in Providers |-> 0]
  /\ finishCount = [p \in Providers |-> 0]
  /\ lastHandled = [linter |-> NULL, number |-> 0, how |-> "none", result |-> "none"]
  /\ orphaned = {}
  /\ disposed = FALSE
  /\ grammarScopes = [linter \in Providers |-> GrammarScopes(linter)]
  /\ grammarScopesSet = [linter \in Providers |-> [has |-> FALSE, set |-> {}]]
  /\ lintCalls = {}
  /\ requests = {}
  /\ notifications = [p \in Providers |-> <<>>]

InitTriggers ==
  /\ timers = {}
  /\ changeSubscriptions =
       {ChangeSubscription(e, lintOnChangeInterval) : e \in editorLinters}
  /\ lastTrigger = [editor |-> NULL, onChange |-> FALSE, cause |-> "none"]

InitStore ==
  /\ messagesMap = <<>>
  /\ messages = <<>>
  /\ updateState = "idle"
  /\ debounceArmed = FALSE
  /\ lastPass = [emitted |-> FALSE, added |-> <<>>, removed |-> <<>>, messages |-> <<>>]
  /\ lastSet = {}
  /\ flagEntry = AcceptedEntry(<<>>)
  /\ flagLog = <<>>
  /\ flagWindow = [last |-> <<>>, skipped |-> {}]
  /\ updateCall = "out"
  /\ lastDelete = <<>>

\* The defaults of the configuration (LinterRegistry constructor).
InitConfig ==
  /\ lintOnChange = TRUE
  /\ lintPreviewTabs = TRUE
  /\ ignoreVCS = TRUE
  /\ ignoreGlob = DefaultIgnoreGlob
  /\ disabledProviders = {}
  /\ lintOnChangeInterval = DEBOUNCE_CHANGE_DEFAULT_MS

\* One editor, e1, is open on a lintable file.
InitOneEditor ==
  /\ editorLinters = {"e1"}
  /\ aliveBuffers = {"b1"}
  /\ paths = [e \in Editors |-> "/src/a.js"]
  /\ pendingItem = NULL
  /\ pendingElsewhere = {}
  /\ InitTriggers

Init == InitRegistry /\ InitStore /\ InitConfig /\ InitOneEditor

(***************************************************************************)
(* Spec: one file-scope provider (p1) followed through its requests on one *)
(* document, with the store behind it.                                     *)
(***************************************************************************)
Next ==
  \/ AddLinter("p1")
  \/ DeleteLinter("p1")
  \/ \E onChange \in BOOLEAN : LintStart("e1", onChange, MaxCalls)
  \/ \E call \in lintCalls : LintFanOut(call, MaxRequest)
  \/ \E request \in requests : \E value \in Outcomes(request.number) :
       LintFulfilled(request, value)
  \/ \E request \in requests : LintRejected(request)
  \/ \E request \in requests : TimeoutFired(request)
  \/ \E request \in requests : LateSettle(request)
  \/ \E request \in requests : LateTimeout(request)
  \/ DismissNotification("p1")
  \/ DestroyEditor("e1")
  \/ Update

Spec == Init /\ [][Next]_vars

(***************************************************************************)
(* SpecFanOut: both providers registered on one document, so that one      *)
(* lint() call fans out to two providers.                                  *)
(***************************************************************************)
\* The results the providers resolve with in SpecFanOut.
FanOutcomes(number) ==
  { ArrayResult(<< RawMessage("E1", "", NULL, number) >>), NullResult }

NextFanOut ==
  \/ \E linter \in Providers : AddLinter(linter)
  \/ \E onChange \in BOOLEAN : LintStart("e1", onChange, MaxCalls)
  \/ \E call \in lintCalls : LintFanOut(call, MaxFanOut)
  \/ \E request \in requests : \E value \in FanOutcomes(request.number) :
       LintFulfilled(request, value)
  \/ \E request \in requests : LintRejected(request)
  \/ \E request \in requests : TimeoutFired(request)
  \/ \E request \in requests : LateSettle(request)
  \/ \E request \in requests : LateTimeout(request)
  \/ \E name \in Providers : DismissNotification(name)

SpecFanOut == Init /\ [][NextFanOut]_vars

(***************************************************************************)
(* SpecDispose: the life of one provider up to and past Linter.dispose(),  *)
(* with requests in flight when the package is deactivated.                *)
(***************************************************************************)
NextDispose ==
  \/ AddLinter("p1")
  \/ \E onChange \in BOOLEAN : LintStart("e1", onChange, MaxCalls)
  \/ \E call \in lintCalls : LintFanOut(call, MaxRequest)
  \/ \E request \in requests : \E value \in FanOutcomes(request.number) :
       LintFulfilled(request, value)
  \/ \E request \in requests : LintRejected(request)
  \/ \E request \in requests : TimeoutFired(request)
  \/ \E request \in requests : LateSettle(request)
  \/ \E request \in requests : LateTimeout(request)
  \/ DismissNotification("p1")
  \/ Update
  \/ Dispose

SpecDispose == Init /\ [][NextDispose]_vars

(***************************************************************************)
(* SpecPairing: SpecDispose with the scheduling of the timeout timer. The  *)
(* timer that createTimeoutPromise arms with setTimeout fires after        *)
(* LINTER_TIMEOUT_MS unless the race has settled before: a race that stays *)
(* undecided is decided by its timer.                                      *)
(***************************************************************************)
TimerFires == \E request \in requests : TimeoutFired(request)

SpecPairing == Init /\ [][NextDispose]_vars /\ WF_vars(TimerFires)

(***************************************************************************)
(* SpecDocuments: one file-scope provider (p1) linting two documents, e1   *)
(* on b1 and e2 on b2, with requests of both in flight at once.            *)
(***************************************************************************)
InitDocuments ==
  /\ InitRegistry
  /\ InitStore
  /\ InitConfig
  /\ editorLinters = Editors
  /\ aliveBuffers = Buffers
  /\ paths = [e \in Editors |-> "/src/a.js"]
  /\ pendingItem = NULL
  /\ pendingElsewhere = {}
  /\ InitTriggers

NextDocuments ==
  \/ AddLinter("p1")
  \/ \E e \in Editors : LintStart(e, FALSE, MaxCalls)
  \/ \E call \in lintCalls : LintFanOut(call, MaxRequest)
  \/ \E request \in requests : \E value \in FanOutcomes(request.number) :
       LintFulfilled(request, value)
  \/ \E request \in requests : LintRejected(request)
  \/ \E request \in requests : TimeoutFired(request)
  \/ \E request \in requests : LateSettle(request)
  \/ \E request \in requests : LateTimeout(request)
  \/ Update

SpecDocuments == InitDocuments /\ [][NextDocuments]_vars

(***************************************************************************)
(* SpecDisable: one provider (p1) that is disabled and enabled again in the *)
(* toggle view while its requests are in flight, with the store behind it. *)
(***************************************************************************)
NextDisable ==
  \/ AddLinter("p1")
  \/ LintStart("e1", FALSE, MaxCalls)
  \/ \E call \in lintCalls : LintFanOut(call, MaxRequest)
  \/ \E request \in requests : \E value \in FanOutcomes(request.number) :
       LintFulfilled(request, value)
  \/ \E request \in requests : LintRejected(request)
  \/ \E request \in requests : TimeoutFired(request)
  \/ \E request \in requests : LateSettle(request)
  \/ \E request \in requests : LateTimeout(request)
  \/ ToggleProvider("p1")
  \/ Update

SpecDisable == Init /\ [][NextDisable]_vars

(***************************************************************************)
(* SpecGates: the gates and the eligibility test of lint(), under every    *)
(* configuration; the requests it issues are left pending.                 *)
(***************************************************************************)
InitGates ==
  /\ InitRegistry
  /\ InitStore
  /\ lintOnChange \in BOOLEAN
  /\ lintPreviewTabs \in BOOLEAN
  /\ ignoreVCS \in BOOLEAN
  /\ ignoreGlob \in {DefaultIgnoreGlob, ""}
  /\ disabledProviders = {}
  /\ lintOnChangeInterval = DEBOUNCE_CHANGE_DEFAULT_MS
  /\ editorLinters = Editors
  /\ aliveBuffers = Buffers
  /\ paths \in {f \in [Editors -> Paths] : f["e2"] = "/src/a.js"}
  /\ pendingItem \in {NULL, "e1"}
  /\ pendingElsewhere \in {{}, {"e2"}}
  /\ InitTriggers

NextGates ==
  \/ \E linter \in Providers : AddLinter(linter)
  \/ \E e \in Editors, onChange \in BOOLEAN : LintStart(e, onChange, MaxCalls)
  \/ \E call \in lintCalls : LintReturnFalse(call)
  \/ \E call \in lintCalls : LintFanOut(call, MaxFanOut)

SpecGates == InitGates /\ [][NextGates]_vars

(***************************************************************************)
(* SpecEligibility: the loop of lint() over providers that are registered, *)
(* unregistered, disabled and enabled, and that change their grammar       *)
(* scopes, under the default configuration.                                *)
(***************************************************************************)
InitEligibility ==
  /\ InitRegistry
  /\ InitStore
  /\ InitConfig
  /\ editorLinters = Editors
  /\ aliveBuffers = Buffers
  /\ paths = [e \in Editors |-> "/src/a.js"]
  /\ pendingItem = NULL
  /\ pendingElsewhere = {}
  /\ InitTriggers

NextEligibility ==
  \/ \E linter \in Providers : AddLinter(linter)
  \/ \E linter \in Providers : DeleteLinter(linter)
  \/ \E name \in Providers : ToggleProvider(name)
  \/ \E scopes \in ScopeLists : ChangeGrammarScopes("p2", scopes)
  \/ \E e \in Editors, onChange \in BOOLEAN : LintStart(e, onChange, MaxCalls)
  \/ \E call \in lintCalls : LintFanOut(call, MaxFanOut)

SpecEligibility == InitEligibility /\ [][NextEligibility]_vars

(***************************************************************************)
(* SpecStore: the operations of MessageRegistry applied to two buckets     *)
(* with message lists drawn from a small catalogue.                        *)
(***************************************************************************)
\* Normalized messages: A1 and A2 are distinct objects with the same key.
MsgA1 == normalizeMessage("p1", RawMessage("A", "", NULL, 1))

MsgA2 == normalizeMessage("p1", RawMessage("A", "", "", 2))

MsgB1 == normalizeMessage("p1", RawMessage("B", "", NULL, 1))

MsgC1 == normalizeMessage("p2", RawMessage("C", "", NULL, 1))

StoreLists(linter) ==
  IF linter = "p1"
  THEN { <<>>, <<MsgA1>>, <<MsgA2>>, <<MsgB1>>, <<MsgA1, MsgB1>>, <<MsgB1, MsgA2>>,
         <<MsgA1, MsgA2>> }
  ELSE { <<>>, <<MsgC1>> }

StoreBuffer(linter) == IF LinterScope(linter) = "file" THEN "b1" ELSE NULL

NextStore ==
  \/ \E linter \in Providers : \E msgs \in StoreLists(linter) :
       Set(msgs, linter, StoreBuffer(linter))
  \/ DeleteByBuffer("b1")
  \/ \E linter \in Providers : DeleteByLinter(linter)
  \/ DeleteAll
  \/ Update

SpecStore == Init /\ [][NextStore]_vars

(***************************************************************************)
(* SpecPass: the store behind one provider that lints two documents, with  *)
(* a listener of the batch that calls back into the store (set, the clear  *)
(* operations, update) while the pass runs.                                *)
(***************************************************************************)
PassLists == { <<>>, <<MsgA1>>, <<MsgB1>> }

NextPass ==
  \/ \E msgs \in PassLists : \E buffer \in Buffers : Set(msgs, "p1", buffer)
  \/ \E buffer \in Buffers : DeleteByBuffer(buffer)
  \/ DeleteByLinter("p1")
  \/ DeleteAll
  \/ Update
  \/ UpdateEmit
  \/ UpdateWhileRunning
  \/ UpdateFinally

SpecPass == Init /\ [][NextPass]_vars

(***************************************************************************)
(* SpecDebounce: the store of SpecPass, with fewer lists, and with the     *)
(* scheduling of the debounce timer and of the pass. The timer of          *)
(* debouncedUpdate expires once no call has restarted it for               *)
(* MESSAGE_UPDATE_DEBOUNCE_MS, and a pass that has emitted its batch goes  *)
(* on to its finally block when the listeners return. A behaviour in which *)
(* the timer stays pending for ever is one in which the calls never pause  *)
(* for the length of the window.                                           *)
(***************************************************************************)
MESSAGE_UPDATE_DEBOUNCE_MS == 100

DebounceElapses == Update \/ UpdateEmit

NextDebounce ==
  \/ \E msgs \in PassLists : Set(msgs, "p1", "b1")
  \/ Set(<< MsgB1 >>, "p1", "b2")
  \/ \E buffer \in Buffers : DeleteByBuffer(buffer)
  \/ DeleteByLinter("p1")
  \/ DeleteAll
  \/ Update
  \/ UpdateEmit
  \/ UpdateWhileRunning
  \/ UpdateFinally

SpecDebounce ==
  Init /\ [][NextDebounce]_vars /\ WF_vars(DebounceElapses) /\ WF_vars(UpdateFinally)

(***************************************************************************)
(* SpecThrow: the store of SpecDebounce with one document, and with a      *)
(* listener of did-update-messages that may throw instead of returning.    *)
(* A listener that has control either returns or throws.                   *)
(***************************************************************************)
ListenerExits == UpdateFinally \/ UpdateThrows

NextThrow ==
  \/ \E msgs \in PassLists : Set(msgs, "p1", "b1")
  \/ DeleteByLinter("p1")
  \/ Update
  \/ UpdateEmit
  \/ UpdateWhileRunning
  \/ UpdateFinally
  \/ UpdateThrows

SpecThrow ==
  Init /\ [][NextThrow]_vars /\ WF_vars(DebounceElapses) /\ WF_vars(ListenerExits)

(***************************************************************************)
(* SpecDelete: the store behind one provider that lints two documents and  *)
(* may report the same diagnostic twice, with a caller of deleteMessage().  *)
(* MsgA1 and MsgA2 are two objects with one key.                            *)
(***************************************************************************)
DeleteLists == { <<>>, << MsgA1, MsgA2 >>, << MsgA1, MsgA1 >> }

Deletable == { MsgA1, MsgA2 }

NextDelete ==
  \/ \E msgs \in DeleteLists : Set(msgs, "p1", "b1")
  \/ Set(<< MsgA2 >>, "p1", "b2")
  \/ \E buffer \in Buffers : DeleteByBuffer(buffer)
  \/ Update
  \/ UpdateEmit
  \/ UpdateFinally
  \/ \E message \in Deletable : DeleteMessage(message)

SpecDelete == Init /\ [][NextDelete]_vars

(***************************************************************************)
(* SpecEditor: two editors on one document (e1 and the split pane e3) that *)
(* are destroyed, or have linting toggled off and on, with the store       *)
(* behind them.  No provider is registered: a lint() call passes its gates *)
(* and finds nothing to invoke.                                            *)
(***************************************************************************)
Panes == {"e1", "e3"}

InitEditor ==
  /\ InitRegistry
  /\ InitStore
  /\ InitConfig
  /\ editorLinters = Panes
  /\ aliveBuffers = {"b1"}
  /\ paths = [e \in AllEditors |-> "/src/a.js"]
  /\ pendingItem = NULL
  /\ pendingElsewhere = {}
  /\ InitTriggers

NextEditor ==
  \/ \E e \in Panes, lintOnOpen \in BOOLEAN : CreateFromTextEditor(e, lintOnOpen, MaxCalls)
  \/ \E e \in Panes : ToggleOff(e)
  \/ \E e \in Panes : DestroyEditor(e)
  \/ \E call \in lintCalls : LintFanOut(call, MaxFanOut)
  \/ \E msgs \in {<<>>, << MsgA1 >>, << MsgA1, MsgB1 >>} : Set(msgs, "p1", "b1")
  \/ Set(<< MsgC1 >>, "p2", NULL)
  \/ Update

SpecEditor == InitEditor /\ [][NextEditor]_vars

(***************************************************************************)
(* SpecTriggers: the change and save events of the two editors, the lint   *)
(* command, and the debounce timers across dispose() of the EditorLinter.  *)
(***************************************************************************)
NextTriggers ==
  \/ \E e \in Panes : Change(e)
  \/ \E e \in Panes : ChangeTimerFired(e, MaxCalls)
  \/ \E e \in Panes : Save(e, MaxCalls)
  \/ \E t \in timers : SaveTimerFired(t, MaxCalls)
  \/ \E e \in Panes, onChange \in BOOLEAN : Lint(e, onChange, MaxCalls)
  \/ \E interval \in Intervals : ChangeInterval(interval)
  \/ \E e \in Panes, lintOnOpen \in BOOLEAN : CreateFromTextEditor(e, lintOnOpen, MaxCalls)
  \/ \E e \in Panes : ToggleOff(e)
  \/ \E e \in Panes : DestroyEditor(e)
  \/ \E call \in lintCalls : LintFanOut(call, MaxFanOut)

SpecTriggers == InitEditor /\ [][NextTriggers]_vars

(***************************************************************************)
(* SpecFlag: one bucket that holds any list of the catalogue and is set    *)
(* and diffed again, pass after pass.                                      *)
(***************************************************************************)
\* The lists of at most two messages; A1 and A2 have the same key.
FlagLists ==
  LET catalogue == {MsgA1, MsgA2, MsgB1}
  IN {<<>>} \cup {<< m >> : m \in catalogue}
            \cup {<< m, n >> : m \in catalogue, n \in catalogue}

InitFlag ==
  /\ InitRegistry
  /\ InitConfig
  /\ InitOneEditor
  /\ messagesMap = <<>>
  /\ messages = <<>>
  /\ updateState = "idle"
  /\ debounceArmed = FALSE
  /\ lastPass = [emitted |-> FALSE, added |-> <<>>, removed |-> <<>>, messages |-> <<>>]
  /\ lastSet = {}
  /\ flagEntry \in {AcceptedEntry(list) : list \in FlagLists}
  /\ flagLog = <<>>
  /\ flagWindow = [last |-> <<>>, skipped |-> {}]
  /\ updateCall = "out"
  /\ lastDelete = <<>>

NextFlag ==
  \/ \E msgs \in FlagLists : FlagSet(msgs, MaxDiffs)
  \/ FlagPass(MaxDiffs)

SpecFlag == InitFlag /\ [][NextFlag]_vars

(***************************************************************************)
(* SpecWindow: the bucket of SpecFlag with fewer lists and with the calls   *)
(* of set() between two passes recorded.                                   *)
(***************************************************************************)
WindowLists == { <<>>, << MsgA1 >>, << MsgA2 >>, << MsgB1 >>, << MsgA1, MsgB1 >> }

NextWindow ==
  \/ \E msgs \in WindowLists : FlagSetInWindow(msgs, MaxDiffs)
  \/ FlagPass(MaxDiffs)

SpecWindow == InitFlag /\ [][NextWindow]_vars

(***************************************************************************)
(* Properties.                                                             *)
(***************************************************************************)
\* The race of the request settles in this step (its handler runs).
Handles(request) ==
  /\ request \in requests
  /\ ~request.raceSettled
  /\ request \notin requests'

\* The bucket of (buffer, linter) in the Map, or NULL.
Bucket(buffer, linter) ==
  LET i == EntryIndex(messagesMap, GetKey(buffer, linter))
  IN IF i = 0 THEN NULL ELSE messagesMap[i]

HasBucket(buffer, linter) == EntryIndex(messagesMap, GetKey(buffer, linter)) # 0

\* C1 (freshest-wins): when the race of a request settles while a request of
\* the same provider with the same or a higher number has already passed the
\* commit gate, nothing is pushed to the store: the provider's buckets, the
\* scheduled pass and the provider's lastCommitted stay as the newer request
\* left them.
C1_FreshestWins ==
  [][\A request \in requests :
       (Handles(request) /\ requestLastReceived[request.linter] >= request.number)
         => /\ messagesMap' = messagesMap
            /\ debounceArmed' = debounceArmed
            /\ requestLastReceived' = requestLastReceived]_vars

\* Request 1 of p1 was discarded after request 2 had committed; the bucket
\* shows the messages of request 2.
C1_Witness ==
  /\ lastHandled.linter = "p1" /\ lastHandled.number = 1
  /\ lastHandled.how = "discarded" /\ lastHandled.result = "array"
  /\ requestLastReceived["p1"] = 2
  /\ activated["p1"] /\ BufferAlive("b1")
  /\ HasBucket("b1", "p1")
  /\ Bucket("b1", "p1").messages # <<>>
  /\ \A i \in 1..Len(Bucket("b1", "p1").messages) : Bucket("b1", "p1").messages[i].oid = 2

\* Whether the handler that takes this step for request pushes to the store.
Commits(request) ==
  /\ Handles(request)
  /\ (messagesMap' # messagesMap \/ lastHandled'.how = "committed")

\* The provider is registered: in the set of linters and activated.
Registered(linter) == linter \in linters /\ activated[linter]

\* C2 (commit gate): every commit happens at a moment when the
\* provider is registered and, for a file-scope provider, the buffer of the
\* originating document is alive; a result that resolves while the provider
\* is unregistered or after the buffer was destroyed is never pushed to the
\* store.
C2_CommitGate ==
  [][\A request \in requests :
       /\ Commits(request)
            => /\ Registered(request.linter)
               /\ LinterScope(request.linter) = "file"
                    => (request.buffer # NULL /\ BufferAlive(request.buffer))
       /\ (Handles(request)
             /\ (~activated[request.linter]
                  \/ (request.buffer # NULL /\ ~BufferAlive(request.buffer))))
            => UNCHANGED << messagesMap, messages, debounceArmed >>]_vars

\* A fresh result met an unregistered provider and was discarded.
C2_Witness ==
  /\ lastHandled.linter = "p1" /\ lastHandled.number = 1
  /\ lastHandled.how = "discarded" /\ lastHandled.result = "array"
  /\ requestLastReceived["p1"] = 0
  /\ ~Registered("p1")
  /\ BufferAlive("b1")

\* C2 in its stronger form: every commit happens while the provider is
\* registered and the buffer alive, and a result that resolves after
\* deleteLinter(provider), or after the buffer was destroyed, is never pushed
\* to the store.
C2_NeverAfterDelete ==
  [][\A request \in requests :
       /\ Commits(request)
            => /\ Registered(request.linter)
               /\ LinterScope(request.linter) = "file"
                    => (request.buffer # NULL /\ BufferAlive(request.buffer))
       /\ (Handles(request)
         /\ (RequestId(request) \in orphaned
              \/ (request.buffer # NULL /\ ~BufferAlive(request.buffer))))
        => messagesMap' = messagesMap]_vars

\* The commit gate lets the request through (restated from the handler).
PassesGate(request) ==
  /\ requestLastReceived[request.linter] < request.number
  /\ activated[request.linter]
  /\ (request.buffer = NULL \/ BufferAlive(request.buffer))

\* C3 (independent commit): when the race of a request settles with an array
\* and the request passes the commit gate, the array is in the provider's
\* bucket, and the store's update is scheduled, in that same step, whatever
\* the state of the other providers' requests, which the step leaves as they
\* were.
C3_IndependentCommit ==
  [][\A request \in requests :
       (Handles(request) /\ lastHandled'.result = "array" /\ PassesGate(request))
        => LET i == EntryIndex(messagesMap', GetKey(request.buffer, request.linter))
           IN /\ i # 0
              /\ messagesMap'[i].changed
              /\ \A k \in 1..Len(messagesMap'[i].messages) :
                    messagesMap'[i].messages[k].oid = request.number
              /\ debounceArmed'
              /\ requestLastReceived'[request.linter] = request.number
              /\ \A other \in requests :
                    other.linter # request.linter => other \in requests']_vars

\* p1's result is committed while p2, invoked by the same lint() call, is
\* still pending.
C3_Witness ==
  /\ lastHandled.linter = "p1" /\ lastHandled.how = "committed"
  /\ requestLatest["p1"] = 1 /\ requestLastReceived["p1"] = 1
  /\ HasBucket("b1", "p1")
  /\ Bucket("b1", "p1").messages # <<>>
  /\ \E other \in requests :
       /\ other.linter = "p2" /\ other.fanOut = {"p1", "p2"}
       /\ other.lintPending /\ ~other.raceSettled
  /\ ~HasBucket(NULL, "p2")

\* The loser of the request's race settles in this step.
LoserSettles(request) ==
  /\ request \in requests
  /\ request.raceSettled
  /\ request \notin requests'

\* C4 (timeout race): exactly one outcome of each race is acted on. The step
\* in which the loser settles (the provider after the timeout, or the timer
\* after the provider) changes neither the store, nor the notifications, nor
\* the accepted request number, and emits no event; and every request issued
\* is either undecided or has produced exactly one finish event.
C4_TimeoutRace ==
  [][/\ \A request \in requests :
          LoserSettles(request)
           => UNCHANGED << storeVars, notifications, activeNotifications, finishCount,
                           beginCount, requestLastReceived, lastHandled >>
     /\ \A request \in requests :
          Handles(request)
           => /\ finishCount' = [finishCount EXCEPT ![request.linter] = @ + 1]
              /\ \A after \in requests' \ requests : after.raceSettled
     /\ \A linter \in Providers :
          finishCount'[linter] + Cardinality(InFlight(linter)') = beginCount'[linter]]_vars

\* Request 1 timed out and the provider settled later; request 2 was
\* committed and its timer fired later: one notification, one commit, two
\* finish events.
C4_Witness ==
  /\ requestLatest["p1"] = 2 /\ requests = {}
  /\ finishCount["p1"] = 2
  /\ notifications["p1"] = << TimeoutError(LINTER_TIMEOUT_MS, "p1") >>
  /\ lastHandled.number = 2 /\ lastHandled.how = "committed"
  /\ HasBucket("b1", "p1")
  /\ Bucket("b1", "p1").messages # <<>>
  /\ \A i \in 1..Len(Bucket("b1", "p1").messages) : Bucket("b1", "p1").messages[i].oid = 2

\* The race of the request settles with a failure in this step: the provider
\* rejected or threw, or the timeout fired.
Fails(request) ==
  /\ Handles(request)
  /\ lastHandled'.result \in {"failed", "timed out"}

\* C5 (failure): the step in which a request fails pushes nothing to the
\* store: every bucket, the visible messages and the accepted request number
\* are as before, and no update of the store is scheduled by it.
C5_FailureCommitsNothing ==
  [][\A request \in requests :
       Fails(request)
        => UNCHANGED << messagesMap, messages, debounceArmed, requestLastReceived >>]_vars

\* Request 1 was committed and accepted by a pass of the store; request 2
\* failed, and the bucket still holds the messages of request 1.
C5_Witness ==
  /\ lastHandled.linter = "p1" /\ lastHandled.number = 2
  /\ lastHandled.how = "failed" /\ lastHandled.result = "failed"
  /\ requestLastReceived["p1"] = 1
  /\ HasBucket("b1", "p1")
  /\ Bucket("b1", "p1").oldMessages # <<>>
  /\ Bucket("b1", "p1").messages = Bucket("b1", "p1").oldMessages
  /\ ~Bucket("b1", "p1").changed /\ ~Bucket("b1", "p1").deleted
  /\ \A i \in 1..Len(messages) : messages[i].oid = 1
  /\ messages # <<>>

\* C6 (notification de-duplication): at most one error notification is open
\* per provider name; a failure of a provider whose notification is open
\* raises none; a failure of a provider that has none open (it never had, or
\* it was dismissed) raises exactly one, with the failure's message.
C6_NotificationDedup ==
  [][/\ \A name \in Providers : Len(notifications'[name]) <= 1
     /\ \A request \in requests :
          Fails(request)
           => /\ notifications[request.linter] # <<>> => notifications' = notifications
              /\ notifications[request.linter] = <<>>
                   => /\ Len(notifications'[request.linter]) = 1
                      /\ notifications'[request.linter][1][1] = lastHandled'.result
              /\ \A name \in Providers \ {request.linter} :
                    notifications'[name] = notifications[name]]_vars

\* Two error notifications of p1 are open at once, the second raised after
\* dispose() cleared the notification keys.
C6_Witness ==
  /\ disposed
  /\ Len(notifications["p1"]) = 2
  /\ lastHandled.linter = "p1" /\ lastHandled.how = "failed"

\* A request of the provider settles, wins or loses its race, in this step.
Settles(request) == Handles(request) \/ LoserSettles(request)

\* What the dispatcher and the store hold for a provider.
ProviderState(linter) ==
  [ registered   |-> linter \in linters,
    activated    |-> activated[linter],
    disabled     |-> linter \in disabledProviders,
    latest       |-> requestLatest[linter],
    received     |-> requestLastReceived[linter],
    requests     |-> {request \in requests : request.linter = linter},
    notification |-> notifications[linter],
    buckets      |-> SelectSeq(messagesMap, LAMBDA entry : entry.linter = linter) ]

\* lint() resumes from this call and runs its loop in this step.
FansOut(call) ==
  /\ call \in lintCalls
  /\ call.gate = "open"
  /\ call \notin lintCalls'

\* C7 (provider isolation): whatever a provider's request does (fail, time
\* out, settle late, or stay pending), the step changes nothing that belongs
\* to another provider: its registration, its request numbers, its pending
\* requests, its notification and its buckets; and a lint() call that runs
\* its loop invokes every registered, enabled provider that matches the
\* trigger, whatever the state of the other providers' requests.
C7_ProviderIsolation ==
  [][/\ \A request \in requests :
          Settles(request)
           => \A other \in Providers \ {request.linter} :
                ProviderState(other)' = ProviderState(other)
     /\ \A call \in lintCalls :
          FansOut(call)
           => \A linter \in linters :
                (/\ linter \notin disabledProviders
                 /\ shouldTriggerLinter(linter, call.onChange,
                                        getEditorCursorScopes(call.editor)))
                 => /\ requestLatest'[linter] = requestLatest[linter] + 1
                    /\ \E request \in requests' \ requests :
                         /\ request.linter = linter
                         /\ request.number = requestLatest'[linter]
                         /\ request.lintPending /\ ~request.raceSettled]_vars

\* p2 timed out and never settled; p1, registered afterwards and invoked by a
\* later lint() call, has its result committed.
C7_Witness ==
  /\ \E request \in requests :
       /\ request.linter = "p2" /\ request.fanOut = {"p2"}
       /\ request.raceSettled /\ request.lintPending
  /\ notifications["p2"] = << TimeoutError(LINTER_TIMEOUT_MS, "p2") >>
  /\ \E request \in requests :
       /\ request.linter = "p1" /\ request.fanOut = {"p1"}
       /\ request.raceSettled /\ request.timerArmed
  /\ lastHandled.linter = "p1" /\ lastHandled.how = "committed"
  /\ HasBucket("b1", "p1")
  /\ Bucket("b1", "p1").messages # <<>>
  /\ notifications["p1"] = <<>>

\* The scope set of a document: every cursor's scopes and the wildcard.
ScopeSet(e) == {"*"} \cup UNION CursorScopes(e)

\* The eligibility test, restated from the claim.
Eligible(linter, call) ==
  /\ linter \in linters
  /\ linter \notin disabledProviders
  /\ call.onChange => LintsOnChange(linter)
  /\ grammarScopes[linter] \cap ScopeSet(call.editor) # {}

\* The step invokes the provider: it issues the next request number to it.
Invokes(linter) ==
  /\ requestLatest'[linter] = requestLatest[linter] + 1
  /\ \E request \in requests' \ requests :
       /\ request.linter = linter
       /\ request.number = requestLatest'[linter]

\* C8 (eligibility): when a lint() call that passed the document gates runs
\* its loop, a provider is invoked and issued a request number if and only if
\* it is registered, not disabled, declares lintsOnChange when the trigger is
\* change-triggered, and its grammar scopes intersect the document's scope set;
\* the request number of every other provider stays as it was.
C8_Eligibility ==
  [][\A call \in lintCalls :
       FansOut(call)
        => \A linter \in Providers :
             /\ Invokes(linter) <=> Eligible(linter, call)
             /\ ~Eligible(linter, call)
                  => /\ requestLatest'[linter] = requestLatest[linter]
                     /\ \A request \in requests' \ requests : request.linter # linter]_vars

\* The document of the call is the pending (preview) item of its pane.
IsPreview(e) == pendingItem = e \/ e \in pendingElsewhere

\* The document's path is ignored: by the glob, or by the VCS while VCS
\* ignoring is enabled.
PathIgnored(e) ==
  \/ Minimatch(paths[e], ignoreGlob)
  \/ (ignoreVCS /\ RepositoryIgnores(paths[e]))

\* The document gates, restated from the claim.
Gated(call) ==
  \/ PathIgnored(call.editor)
  \/ (IsPreview(call.editor) /\ ~lintPreviewTabs)
  \/ (call.onChange /\ ~lintOnChange)

\* C9 (document gates): a lint() call invokes no provider and issues no
\* request number when the document's path is ignored, when the document is
\* a pending preview item and lintPreviewTabs is false, or when the trigger is
\* change-triggered and lint-on-change is off.
C9_DocumentGates ==
  [][\A call \in lintCalls :
       (call \notin lintCalls' /\ Gated(call))
        => UNCHANGED << requestLatest, beginCount, requests >>]_vars

\* update() runs in this step: the debounce is satisfied (and not cancelled
\* by dispose()).
Passes == debounceArmed /\ ~debounceArmed' /\ ~disposed'

\* The bucket holds a list set since the last pass whose keys are those of
\* its accepted list.
SameKeys(entry) == entry.changed /\ Keys(entry.messages) = Keys(entry.oldMessages)

\* The messages of a list that belong to the provider of a bucket.
OfBucket(list, entry) ==
  {i \in 1..Len(list) : list[i].linterName = entry.linter}

Recommitted(entry) == SameKeys(entry) /\ entry.key \in lastSet

RECURSIVE Concat(_)
\* The concatenation of a sequence of lists.
Concat(lists) == IF lists = <<>> THEN <<>> ELSE Head(lists) \o Concat(Tail(lists))

\* The bucket received a set() since the last pass and no clear operation
\* after it: its list is one of the mutations of the current debounce window.
SetInWindow(entry) == entry.key \in lastSet /\ ~entry.deleted

\* The diff of one bucket taken alone.
Diff(entry) == flagMessages(entry.messages, entry.oldMessages)

\* The diffs of the buckets set in the window, bucket by bucket in Map order.
WindowDiffs(field) ==
  Concat([i \in 1..Len(messagesMap) |->
            IF SetInWindow(messagesMap[i]) THEN Diff(messagesMap[i])[field] ELSE <<>>])

\* C11 (debounce coalescing): when the debounce window that ends with a pass
\* held set() calls on two or more different buckets and no clear operation,
\* that one pass computes added and removed lists that are the union of the
\* buckets' individual diffs, emits one batch with them when the union is not
\* empty, and leaves no bucket changed and no further pass scheduled.
C11_DebounceCoalescing ==
  [][(Passes /\ Cardinality(lastSet) >= 2
        /\ \A i \in 1..Len(messagesMap) : ~messagesMap[i].deleted)
      => /\ lastPass'.added = WindowDiffs("newAdded")
         /\ lastPass'.removed = WindowDiffs("oldRemoved")
         /\ lastPass'.emitted = (lastPass'.added # <<>> \/ lastPass'.removed # <<>>)
         /\ ~debounceArmed'
         /\ \A k \in 1..Len(messagesMap') : ~messagesMap'[k].changed]_vars

\* One batch carried the changes of two buckets: MsgA1 removed from the
\* bucket of b1 and MsgB1 added to the bucket of b2.
C11_Witness ==
  /\ lastPass.emitted
  /\ lastPass.removed = << MsgA1 >>
  /\ lastPass.added = << MsgB1 >>
  /\ HasBucket("b1", "p1") /\ Bucket("b1", "p1").oldMessages = <<>>
  /\ HasBucket("b2", "p1") /\ Bucket("b2", "p1").oldMessages = << MsgB1 >>
  /\ messages = << MsgB1 >>
  /\ ~debounceArmed /\ updateState = "idle"

\* No pass is scheduled or running.
Quiescent == ~debounceArmed /\ updateState = "idle"

\* The accepted list of the bucket with this key has the keys of list.
Reflected(map, key, list) ==
  \E k \in 1..Len(map) : map[k].key = key /\ Keys(map[k].oldMessages) = Keys(list)

\* C12 (no lost mutation): a pass gives every bucket whose latest mutation is
\* a set() an accepted list with exactly the keys of the list last set for
\* it, whatever set and clear calls came before that set; and once the store
\* is quiescent no bucket is left changed or marked deleted.
C12_NoLostMutation ==
  /\ [](Quiescent => \A i \in 1..Len(messagesMap) :
                       ~messagesMap[i].changed /\ ~messagesMap[i].deleted)
  /\ [][Passes
         => \A i \in 1..Len(messagesMap) :
              messagesMap[i].key \in lastSet
                => Reflected(messagesMap', messagesMap[i].key, messagesMap[i].messages)]_vars

\* The step does the work of a pass: a batch is computed or emitted, a bucket
\* is dropped, or a bucket's changed flag or accepted list is settled.
RunsPass ==
  \/ lastPass' # lastPass
  \/ messages' # messages
  \/ \E i \in 1..Len(messagesMap) :
       \/ EntryIndex(messagesMap', messagesMap[i].key) = 0
       \/ LET after == messagesMap'[EntryIndex(messagesMap', messagesMap[i].key)]
          IN \/ (messagesMap[i].changed /\ ~after.changed)
             \/ after.oldMessages # messagesMap[i].oldMessages

\* C13 (no concurrent or re-entrant pass): a pass starts only when the store
\* is idle and then holds the state "processing"; while a pass is running no
\* step does the work of a pass, and an update() call made then only moves
\* the state to "pending", leaving the buckets, the visible messages, the
\* last batch and the debounce as they were.
C13_NoReentrantPass ==
  [][/\ RunsPass => updateState = "idle"
     /\ (updateState = "idle" /\ updateState' # "idle") => updateState' = "processing"
     /\ (updateState = "processing" /\ updateState' = "pending")
          => UNCHANGED << messagesMap, messages, lastPass, debounceArmed >>]_vars

\* update() was called while the pass that emitted MsgA1 was running, after
\* the listener had set a new list: the list is still waiting for its pass.
C13_Witness ==
  /\ updateState = "pending"
  /\ lastPass.emitted /\ lastPass.added = << MsgA1 >>
  /\ messages = << MsgA1 >>
  /\ HasBucket("b1", "p1")
  /\ Bucket("b1", "p1").changed
  /\ Bucket("b1", "p1").messages = << MsgB1 >>
  /\ Bucket("b1", "p1").oldMessages = << MsgA1 >>

\* The accepted lists of the buckets of a Map, one after the other.
Accepted(map) == Concat([k \in 1..Len(map) |-> map[k].oldMessages])

\* C14 (batch completeness): the messages of every emitted batch are the
\* accepted lists of the buckets that the pass leaves in the Map, none of
\* which is marked deleted, and the store's messages field is that list.
C14_BatchCompleteness ==
  [][(Passes /\ lastPass'.emitted)
      => /\ lastPass'.messages = Accepted(messagesMap')
         /\ Keys(lastPass'.messages) =
              UNION {Keys(messagesMap'[k].oldMessages) : k \in 1..Len(messagesMap')}
         /\ messages' = lastPass'.messages
         /\ \A k \in 1..Len(messagesMap') : ~messagesMap'[k].deleted]_vars

\* A batch that added MsgB1 to the bucket of b2 also lists MsgA1 of the
\* bucket of b1, which did not change in that pass.
C14_Witness ==
  /\ lastPass.emitted
  /\ lastPass.added = << MsgB1 >> /\ lastPass.removed = <<>>
  /\ lastPass.messages = << MsgA1, MsgB1 >>
  /\ messages = << MsgA1, MsgB1 >>
  /\ HasBucket("b1", "p1") /\ Bucket("b1", "p1").oldMessages = << MsgA1 >>
  /\ HasBucket("b2", "p1") /\ Bucket("b2", "p1").oldMessages = << MsgB1 >>

\* The keys a bucket holds, in its accepted list or in the list last set.
KeysOf(entry) == Keys(entry.oldMessages) \cup Keys(entry.messages)

\* No message key occurs in two different buckets.
DisjointBuckets ==
  \A i, j \in 1..Len(messagesMap) :
    i # j => KeysOf(messagesMap[i]) \cap KeysOf(messagesMap[j]) = {}

\* The pass emits batch k: messages is the list of batch k-1, messages' and
\* lastPass' are batch k.
EmitsBatch == Passes /\ lastPass'.emitted

\* Every removed message was in the previous batch, and within a bucket no
\* added key was accepted before and the accepted keys are the previous ones
\* minus the removed plus the added ones.
DeltaPerBucket ==
  /\ Keys(lastPass'.removed) \subseteq Keys(messages)
  /\ \A i \in 1..Len(messagesMap) :
       (messagesMap[i].changed /\ ~messagesMap[i].deleted)
         => /\ Keys(Diff(messagesMap[i]).newAdded) \cap Keys(messagesMap[i].oldMessages) = {}
            /\ Keys(Diff(messagesMap[i]).newAdded) \subseteq Keys(lastPass'.added)
            /\ Keys(Diff(messagesMap[i]).oldRemoved) \subseteq Keys(lastPass'.removed)
            /\ \E k \in 1..Len(messagesMap') :
                 /\ messagesMap'[k].key = messagesMap[i].key
                 /\ Keys(messagesMap'[k].oldMessages) =
                      (Keys(messagesMap[i].oldMessages)
                         \ Keys(Diff(messagesMap[i]).oldRemoved))
                        \cup Keys(Diff(messagesMap[i]).newAdded)

\* The keys of batch k are those of batch k-1 minus the removed plus the added.
DeltaOfBatch ==
  Keys(messages') = (Keys(messages) \ Keys(lastPass'.removed)) \cup Keys(lastPass'.added)

\* When no message key occurs in two different buckets, every emitted batch
\* is consistent with the one before it, per bucket and as a whole.
DeltaConsistentWhenDisjoint ==
  [][EmitsBatch => (DeltaPerBucket /\ (DisjointBuckets => DeltaOfBatch))]_vars

\* C15 (delta consistency): for every emitted batch the keys of the batch are
\* the keys of the previous batch minus the removed keys plus the added keys,
\* every removed message was in the previous batch and no added key was
\* accepted before in its bucket.
C15_DeltaByKey ==
  [][EmitsBatch => (DeltaPerBucket /\ DeltaOfBatch)]_vars

\* The buckets of b1 and b2 both held a message with the key of MsgA1; the
\* result [] for b1 gave a batch that reports MsgA1 as removed while MsgA1 of
\* b2 is still among its messages.
C15_Witness ==
  /\ lastPass.emitted
  /\ lastPass.added = <<>> /\ lastPass.removed = << MsgA1 >>
  /\ lastPass.messages = << MsgA1 >> /\ messages = << MsgA1 >>
  /\ HasBucket("b1", "p1") /\ Bucket("b1", "p1").oldMessages = <<>>
  /\ HasBucket("b2", "p1") /\ Bucket("b2", "p1").oldMessages = << MsgA1 >>
  /\ MsgA1.key \in Keys(lastPass.removed) \cap Keys(lastPass.messages)

\* The buckets that this step marks deleted (by their position in the Map).
Marked ==
  {i \in 1..Len(messagesMap) :
     /\ i <= Len(messagesMap')
     /\ ~messagesMap[i].deleted
     /\ messagesMap'[i].deleted}

\* The buckets a clear operation matches: those of one buffer, those of one
\* provider, or all of them.
Matching(field, value) ==
  {i \in 1..Len(messagesMap) : field = "all" \/ messagesMap[i][field] = value}

\* The step marks what one clear operation matches, and nothing else.
MarksOneClear ==
  \/ \E buffer \in Buffers \cup {NULL} :
       Marked = {i \in Matching("buffer", buffer) : ~messagesMap[i].deleted}
  \/ \E linter \in Providers :
       Marked = {i \in Matching("linter", linter) : ~messagesMap[i].deleted}
  \/ Marked = {i \in Matching("all", NULL) : ~messagesMap[i].deleted}

\* C16 (clear operations): outside a pass no batch is emitted, the visible
\* messages stay and no bucket leaves the Map; a step that marks buckets
\* deleted marks exactly the buckets one clear operation matches, changes
\* nothing else of any bucket and schedules the debounced pass.
C16_ClearOnlyMarks ==
  [][~Passes
      => /\ messages' = messages
         /\ lastPass' = lastPass
         /\ Len(messagesMap') >= Len(messagesMap)
         /\ \A i \in 1..Len(messagesMap) :
              /\ messagesMap'[i].key = messagesMap[i].key
              /\ messagesMap'[i].oldMessages = messagesMap[i].oldMessages
         /\ Marked # {}
              => /\ debounceArmed'
                 /\ Len(messagesMap') = Len(messagesMap)
                 /\ \A i \in 1..Len(messagesMap) :
                      messagesMap'[i] =
                        [messagesMap[i] EXCEPT !.deleted = @ \/ i \in Marked]
                 /\ MarksOneClear]_vars

\* deleteByBuffer(b1) has marked the bucket of p1, whose MsgA1 is still among
\* the visible messages with MsgC1 of the untouched bucket of p2; the pass is
\* scheduled and has not run.
C16_Witness ==
  /\ HasBucket("b1", "p1") /\ Bucket("b1", "p1").deleted
  /\ Bucket("b1", "p1").oldMessages = << MsgA1 >>
  /\ HasBucket(NULL, "p2") /\ ~Bucket(NULL, "p2").deleted /\ ~Bucket(NULL, "p2").changed
  /\ Bucket(NULL, "p2").oldMessages = << MsgC1 >>
  /\ messages = << MsgA1, MsgC1 >>
  /\ lastPass.emitted /\ lastPass.removed = <<>>
  /\ debounceArmed

\* The EditorLinter of e is disposed in this step.
Unregisters(e) == e \in editorLinters /\ e \notin editorLinters'

\* Another editor that is still registered shows the buffer of e.
SharesBuffer(e) == \E other \in editorLinters' : BufferOf(other) = BufferOf(e)

\* Every message of the list is among the removed messages of the batch.
AllRemoved(list, batch) ==
  \A j \in 1..Len(list) : \E r \in 1..Len(batch.removed) : batch.removed[r] = list[j]

\* C17 (document close with siblings): when the EditorLinter of an editor is
\* destroyed and another registered editor shares its buffer, no bucket is
\* marked deleted and nothing of the store changes; when no registered
\* editor shares the buffer, exactly the buckets of that buffer are marked
\* deleted and the pass is scheduled; and the pass that meets a bucket marked
\* deleted drops it and emits a batch whose removed list holds all of its
\* accepted messages.
C17_CloseWithSiblings ==
  [][/\ \A e \in AllEditors :
          Unregisters(e)
            => IF SharesBuffer(e)
               THEN UNCHANGED << messagesMap, messages, debounceArmed, lastPass >>
               ELSE /\ Len(messagesMap') = Len(messagesMap)
                    /\ \A i \in 1..Len(messagesMap) :
                         messagesMap'[i] =
                           [messagesMap[i] EXCEPT
                              !.deleted = @ \/ messagesMap[i].buffer = BufferOf(e)]
                    /\ debounceArmed'
                    /\ messages' = messages
     /\ Passes
          => \A i \in 1..Len(messagesMap) :
               messagesMap[i].deleted
                 => /\ EntryIndex(messagesMap', messagesMap[i].key) = 0
                    /\ AllRemoved(messagesMap[i].oldMessages, lastPass')
                    /\ messagesMap[i].oldMessages # <<>> => lastPass'.emitted]_vars

\* e1 was closed while e3 showed the same document and nothing was removed;
\* then e3 was closed too and the batch removed the two messages of p1 for
\* the document, leaving the message of the project provider.
C17_Witness ==
  /\ editorLinters = {}
  /\ ~BufferAlive("b1")
  /\ lastPass.emitted
  /\ lastPass.added = <<>>
  /\ lastPass.removed = << MsgA1, MsgB1 >>
  /\ messages = << MsgC1 >>
  /\ ~HasBucket("b1", "p1")
  /\ HasBucket(NULL, "p2") /\ ~Bucket(NULL, "p2").deleted

\* should-lint(onChange) of the editor is delivered in this step: lint() is
\* called for it.
EmitsShouldLint(e, onChange) ==
  \E call \in lintCalls' \ lintCalls : call.editor = e /\ call.onChange = onChange

\* The pending change timers.
ChangeTimers == {t \in timers : t.kind = "change"}

\* C18 (save triggers are leading-edge): the save or reload that starts the
\* save debounce of an editor, with no save timer pending, delivers
\* should-lint(false) in the same step, whether or not a change timer is
\* pending, and leaves the change timers alone; a further save of the burst
\* delivers nothing at once and is kept for the trailing edge, which delivers
\* should-lint(false) when the timer expires.
C18_SaveLeadingEdge ==
  [][\A e \in AllEditors :
       /\ (LiveTimers(e, "save") = {} /\ LiveTimers(e, "save")' # {})
            => /\ EmitsShouldLint(e, FALSE)
               /\ LiveTimers(e, "save")' = {Timer(e, "save", FALSE, TRUE)}
               /\ ChangeTimers' = ChangeTimers
       /\ (Timer(e, "save", FALSE, TRUE) \in timers /\ Timer(e, "save", TRUE, TRUE) \in timers')
            => lintCalls' = lintCalls
       /\ (Timer(e, "save", TRUE, TRUE) \in timers /\ LiveTimers(e, "save")' = {}
             /\ e \in editorLinters')
            => EmitsShouldLint(e, FALSE)]_vars

\* A save of e1 was delivered at once while the change debounce of e1 was
\* pending: the lint call of the save is there, both timers are running.
C18_Witness ==
  /\ lastTrigger = [editor |-> "e1", onChange |-> FALSE, cause |-> "save"]
  /\ Timer("e1", "change", TRUE, TRUE) \in timers
  /\ Timer("e1", "save", FALSE, TRUE) \in timers
  /\ \E call \in lintCalls : call.editor = "e1" /\ ~call.onChange

\* The debounced invocations that are pending for the EditorLinters of e:
\* the timers at whose expiry the debounced function is invoked.
PendingInvocations(e) == {t \in timers : t.editor = e /\ t.trailing}

\* Once the EditorLinter of e is disposed, the change handler of e has no
\* timer, no event starts a timer for e and no should-lint of e is delivered.
ReleasedAfterDispose ==
  [][\A e \in AllEditors :
       e \notin editorLinters'
         => /\ \A t \in timers' : t.editor = e => (t.kind = "save" /\ ~t.live)
            /\ e \notin editorLinters
                 => /\ \A onChange \in BOOLEAN : ~EmitsShouldLint(e, onChange)
                    /\ {t \in timers' : t.editor = e} \subseteq {t \in timers : t.editor = e}]_vars

\* C19 (dispose cancels everything): when the EditorLinter of an editor is
\* disposed, no debounced invocation of its change handler or of its
\* save/reload handler stays pending.
C19_DisposeCancelsAll ==
  [][\A e \in AllEditors : Unregisters(e) => PendingInvocations(e)' = {}]_vars

\* The EditorLinter of e1 is disposed and the trailing invocation of its
\* save/reload handler is still pending.
C19_Witness ==
  /\ "e1" \notin editorLinters
  /\ Timer("e1", "save", TRUE, FALSE) \in timers
  /\ LiveTimers("e1", "change") = {}

\* lint(onChange) of the EditorLinter of e ran in this step.
LintCommand(e, onChange) ==
  /\ lastTrigger' = [editor |-> e, onChange |-> onChange, cause |-> "lint"]
  /\ (lastTrigger' # lastTrigger \/ lintCalls' \ lintCalls # {})

\* C20 (lint bypasses the debounce): the step in which lint(onChange) runs
\* delivers should-lint(onChange) for its editor, exactly once, and neither
\* starts, restarts nor cancels a debounce timer, whichever timers are
\* pending.
C20_LintImmediate ==
  [][\A e \in AllEditors, onChange \in BOOLEAN :
       LintCommand(e, onChange)
         => /\ EmitsShouldLint(e, onChange)
            /\ Cardinality(lintCalls' \ lintCalls) = 1
            /\ timers' = timers]_vars

\* lint(true) was delivered for e1 while its change timer and its save
\* timer, with a trailing call due, were pending; both are still pending.
C20_Witness ==
  /\ lastTrigger = [editor |-> "e1", onChange |-> TRUE, cause |-> "lint"]
  /\ \E call \in lintCalls : call.editor = "e1" /\ call.onChange
  /\ Timer("e1", "change", TRUE, TRUE) \in timers
  /\ Timer("e1", "save", TRUE, TRUE) \in timers

\* One message for each key of the list, in the order in which the keys
\* first occur: the last message of the list that has the key.
OnePerKey(list) ==
  LET First(i) == \A j \in 1..(i - 1) : list[j].key # list[i].key
      LastOf(i) == CHOOSE j \in i..Len(list) :
                     /\ list[j].key = list[i].key
                     /\ \A k \in (j + 1)..Len(list) : list[k].key # list[i].key
      Build[i \in 0..Len(list)] ==
        IF i = 0 THEN <<>>
        ELSE IF First(i) THEN Append(Build[i - 1], list[LastOf(i)]) ELSE Build[i - 1]
  IN Build[Len(list)]

\* Passes k and k + 1 of the log are a round trip: the bucket held old, was
\* given a list with other keys, and was then given old again.
RoundTrip(k) ==
  /\ k + 1 <= Len(flagLog)
  /\ Keys(flagLog[k].oldMessages) \cap Keys(flagLog[k].inputs) = {}
  /\ flagLog[k + 1].inputs = flagLog[k].oldMessages

\* What a diff between lists with no key in common reports as removed.
RemovedOf(previous, new) == IF new = <<>> THEN previous ELSE OnePerKey(previous)

\* C21 (round trip of the diff): when a bucket that holds old is given a
\* list new with no key of old and then old again, its accepted list is old
\* again; the first diff reports added = new and the second added = old,
\* nothing is kept, and each diff reports as removed the list it replaces,
\* with one message per key (the last one that has it) when the list that
\* replaces it is not empty.
C21_RoundTrip ==
  \A k \in 1..Len(flagLog) :
    RoundTrip(k) =>
      LET old == flagLog[k].oldMessages
          new == flagLog[k].inputs
      IN /\ flagLog[k].added = new
         /\ flagLog[k].removed = RemovedOf(old, new)
         /\ flagLog[k].accepted = new
         /\ flagLog[k + 1].added = old
         /\ flagLog[k + 1].removed = RemovedOf(new, old)
         /\ flagLog[k + 1].accepted = old

\* C21 as stated: the first diff reports removed = old and the second
\* removed = new.
C21_RemovedIsReplacedList ==
  \A k \in 1..Len(flagLog) :
    RoundTrip(k) =>
      /\ flagLog[k].removed = flagLog[k].oldMessages
      /\ flagLog[k + 1].removed = flagLog[k].inputs

\* A round trip between [A1, A2], two messages with one key, and [B1] has
\* been logged: the first diff reported A2 as removed and the bucket holds
\* [A1, A2] again.
C21_Witness ==
  /\ Len(flagLog) >= 2
  /\ RoundTrip(1)
  /\ flagLog[1].oldMessages = << MsgA1, MsgA2 >>
  /\ flagLog[1].inputs = << MsgB1 >>
  /\ flagLog[1].removed = << MsgA2 >>
  /\ flagLog[2].removed = << MsgB1 >>
  /\ flagEntry.oldMessages = << MsgA1, MsgA2 >>
  /\ ~flagEntry.changed

\* The messages of the list whose key is (in = TRUE) or is not in keys.
WithKey(list, keys, in) == SelectSeq(list, LAMBDA message : (message.key \in keys) = in)

\* The reference diff of a logged pass, but for what it reports as removed.
ReferenceDiff(record, removed) ==
  LET previous == record.oldMessages
      new == record.inputs
      kept == WithKey(new, Keys(previous), TRUE)
      added == WithKey(new, Keys(previous), FALSE)
  IN IF previous = <<>>
     THEN record.added = new /\ record.removed = <<>> /\ record.accepted = new
     ELSE IF new = <<>>
     THEN record.added = <<>> /\ record.removed = previous /\ record.accepted = <<>>
     ELSE /\ record.added = added
          /\ record.accepted = added \o kept
          /\ record.removed = WithKey(removed, Keys(kept), FALSE)

\* C22 (reference diff): for every new and previous list, an empty previous
\* list gives added = new and nothing removed; an empty new list gives
\* nothing added and removed = previous; otherwise kept is the new messages
\* whose key is in previous, added the new messages whose key is not, and
\* removed has, for each key of previous that is not a kept key, one message
\* of previous: the last one that has the key.
C22_ReferenceDiff ==
  \A k \in 1..Len(flagLog) : ReferenceDiff(flagLog[k], OnePerKey(flagLog[k].oldMessages))

\* C22 as stated: removed is the previous messages whose key is not a kept
\* key.
C22_RemovedAllPrevious ==
  \A k \in 1..Len(flagLog) : ReferenceDiff(flagLog[k], flagLog[k].oldMessages)

\* [A2] was diffed against [A1, B1]: A2 is kept, B1 removed, nothing added.
C22_Witness ==
  \E k \in 1..Len(flagLog) :
    /\ flagLog[k].oldMessages = << MsgA1, MsgB1 >>
    /\ flagLog[k].inputs = << MsgA2 >>
    /\ flagLog[k].added = <<>>
    /\ flagLog[k].removed = << MsgB1 >>
    /\ flagLog[k].accepted = << MsgA2 >>

\* The step leaves the Map, the visible list and the last batch as they are.
NoPassWork == UNCHANGED << messagesMap, messages, lastPass >>

\* C23 (pending rerun): a pass asked for while one is running only turns
\* "processing" into "pending"; the running pass ends in "idle", and when it
\* was "pending" the debounce is armed in that step, which does no work of a
\* pass itself; the state is left for "idle" in no other way, and "pending"
\* is entered only from "processing".
C23_PendingRerun ==
  [][/\ (updateState = "processing" /\ updateState' = "pending")
         => NoPassWork /\ UNCHANGED debounceArmed
     /\ (updateState = "pending" /\ updateState' # "pending")
         => updateState' = "idle" /\ debounceArmed' /\ NoPassWork
     /\ (updateState = "processing" /\ updateState' \notin {"processing", "pending"})
         => updateState' = "idle" /\ NoPassWork /\ UNCHANGED debounceArmed
     /\ (updateState # "pending" /\ updateState' = "pending")
         => updateState = "processing"]_vars

\* update() was called by the listener of the last batch while its pass is
\* running and nothing else asked for a pass: the state is "pending", the
\* debounce is not armed and no bucket has changed.
C23_Witness ==
  /\ updateState = "pending"
  /\ lastPass.emitted
  /\ ~debounceArmed
  /\ messagesMap # <<>>
  /\ \A i \in 1..Len(messagesMap) : ~messagesMap[i].changed /\ ~messagesMap[i].deleted

\* The pass has something to report for the bucket: it is marked deleted and
\* had accepted messages, or the keys of the list set since the last pass are
\* not the keys of its accepted list.
KeyLevelChange(entry) ==
  IF entry.deleted THEN entry.oldMessages # <<>>
  ELSE entry.changed /\ Keys(entry.messages) # Keys(entry.oldMessages)

\* C24 (emit only on change): a pass emits a batch exactly when some bucket
\* has a change by key, and then its added or its removed list is not empty
\* and the visible list becomes the batch's; a pass that emits nothing
\* has both lists empty and leaves the visible list as it was.
C24_EmitIffDelta ==
  [][Passes =>
       /\ lastPass'.emitted
             <=> \E i \in 1..Len(messagesMap) : KeyLevelChange(messagesMap[i])
       /\ lastPass'.emitted <=> (lastPass'.added # <<>> \/ lastPass'.removed # <<>>)
       /\ messages' = IF lastPass'.emitted THEN lastPass'.messages ELSE messages]_vars

\* A pass has accepted [A2] in the bucket that held [A1], another object
\* with the same key, and emitted nothing: the visible list still holds A1.
C24_Witness ==
  /\ ~lastPass.emitted
  /\ ~debounceArmed
  /\ messages = << MsgA1 >>
  /\ HasBucket("b1", "p1")
  /\ Bucket("b1", "p1").oldMessages = << MsgA2 >>
  /\ ~Bucket("b1", "p1").changed

\* The buckets of the Map that are marked deleted, and the others.
DeletedBuckets(map) == SelectSeq(map, LAMBDA entry : entry.deleted)

LiveBuckets(map) == SelectSeq(map, LAMBDA entry : ~entry.deleted)

\* part occurs in list as a run of consecutive elements.
IsRunOf(part, list) ==
  \E from \in 0..(Len(list) - Len(part)) :
    \A i \in 1..Len(part) : list[from + i] = part[i]

\* C25 (deleted-bucket lifecycle): outside a pass a bucket marked deleted
\* stays in the Map, marked and with its accepted list; the next pass puts
\* that whole list into removed (removed is exactly the accepted lists of
\* the deleted buckets when no live bucket changed), builds messages from
\* the live buckets only and drops the bucket, and a bucket that enters the
\* Map starts unmarked with an empty accepted list, so that no later pass
\* reports those messages again.
C25_DeletedLifecycle ==
  [][/\ \A i \in 1..Len(messagesMap) :
          messagesMap[i].deleted =>
            IF Passes
            THEN /\ EntryIndex(messagesMap', messagesMap[i].key) = 0
                 /\ IsRunOf(messagesMap[i].oldMessages, lastPass'.removed)
            ELSE LET j == EntryIndex(messagesMap', messagesMap[i].key)
                 IN /\ j # 0
                    /\ messagesMap'[j].deleted
                    /\ messagesMap'[j].oldMessages = messagesMap[i].oldMessages
     /\ Passes =>
          /\ lastPass'.messages = Accepted(messagesMap')
          /\ Len(messagesMap') = Len(LiveBuckets(messagesMap))
          /\ (\A i \in 1..Len(messagesMap) :
                 messagesMap[i].deleted \/ ~messagesMap[i].changed)
               => lastPass'.removed = Accepted(DeletedBuckets(messagesMap))
     /\ \A j \in 1..Len(messagesMap') :
          EntryIndex(messagesMap, messagesMap'[j].key) = 0
            => ~messagesMap'[j].deleted /\ messagesMap'[j].oldMessages = <<>>]_vars

\* The pass after a clear operation on the provider p1 has reported the
\* accepted list of its bucket as removed and dropped the bucket; the bucket
\* of p2 is left and its message is the visible list.
C25_Witness ==
  /\ lastPass.emitted
  /\ lastPass.added = <<>>
  /\ lastPass.removed = << MsgA1, MsgB1 >>
  /\ ~HasBucket("b1", "p1")
  /\ HasBucket(NULL, "p2")
  /\ messages = << MsgC1 >>
  /\ ~debounceArmed

\* The change handlers of the EditorLinter of e that are subscribed to its
\* buffer.
SubscribedHandlers(e) == {s \in changeSubscriptions : s.editor = e}

\* Every editor that is linted has one subscribed change handler, built with
\* the configured interval, and no other editor has any.
OneChangeListener ==
  \A e \in AllEditors :
    SubscribedHandlers(e) =
      IF e \in editorLinters THEN {ChangeSubscription(e, lintOnChangeInterval)} ELSE {}

\* C26 (interval reconfiguration): before and after every step each live
\* EditorLinter has exactly one change handler subscribed to its buffer, the
\* one built with the configured interval, and a disposed one has none; the
\* step that changes the interval leaves no pending invocation of a change
\* handler of a live EditorLinter and touches no other timer.
C26_OneChangeListener ==
  [][/\ OneChangeListener
     /\ OneChangeListener'
     /\ lintOnChangeInterval' # lintOnChangeInterval
          => /\ \A e \in editorLinters : LiveTimers(e, "change")' = {}
             /\ timers' \subseteq timers
             /\ \A t \in timers \ timers' : t.kind = "change" /\ t.live]_vars

\* The interval is 100 ms: the EditorLinter of e1 has the handler built with
\* 100 ms subscribed and no change timer pending, its save timer is still
\* running, and the disposed EditorLinter of e3 has no handler subscribed.
C26_Witness ==
  /\ lintOnChangeInterval = 100
  /\ editorLinters = {"e1"}
  /\ SubscribedHandlers("e1") = {ChangeSubscription("e1", 100)}
  /\ SubscribedHandlers("e3") = {}
  /\ LiveTimers("e1", "change") = {}
  /\ Timer("e1", "save", TRUE, TRUE) \in timers

\* The requests that lint() issues in this step.
Issued == {r \in requests' : \A r0 \in requests : RequestId(r0) # RequestId(r)}

\* C27 (request counters): in every step, whichever operation it is, the
\* latestIssued and lastCommitted numbers of every provider do not decrease,
\* lastCommitted is at most latestIssued before and after, no request known
\* has a number above latestIssued, and a request issued in the step gets
\* the number latestIssued + 1, which becomes latestIssued.
C27_Counters ==
  [][\A linter \in Providers :
       /\ requestLatest'[linter] >= requestLatest[linter]
       /\ requestLastReceived'[linter] >= requestLastReceived[linter]
       /\ requestLastReceived[linter] <= requestLatest[linter]
       /\ requestLastReceived'[linter] <= requestLatest'[linter]
       /\ \A r \in requests : r.linter = linter => r.number <= requestLatest[linter]
       /\ \A r \in Issued :
            r.linter = linter
              => /\ r.number = requestLatest[linter] + 1
                 /\ r.number = requestLatest'[linter]]_vars

\* Request 1 of p1 was in flight when deleteLinter took the provider; p1 was
\* added again and request 2 was issued to it: the counter went on from 1.
C27_Witness ==
  /\ "p1" \in linters
  /\ orphaned = {<< "p1", 1 >>}
  /\ requestLatest["p1"] = 2
  /\ requestLastReceived["p1"] = 0
  /\ \E r \in requests : r.linter = "p1" /\ r.number = 2 /\ ~r.raceSettled

\* The fulfilment handler of the request runs in this step with a result
\* that is not null and fails Validate.messages.
HandlesInvalid(request) ==
  /\ Handles(request)
  /\ lastHandled'.linter = request.linter
  /\ lastHandled'.number = request.number
  /\ lastHandled'.result = "other"

Racing(linter, number) ==
  \E request \in InFlight(linter) : request.number = number

\* The race of (linter, number) has been decided and its handler has run.
Decided(linter, number) ==
  \E request \in requests :
    request.linter = linter /\ request.number = number /\ request.raceSettled

\* Every did-begin-linting delivered is matched by a did-finish-linting
\* delivered or by a race still undecided.
Paired ==
  \A linter \in Providers :
    beginCount[linter] = finishCount[linter] + Cardinality(InFlight(linter))

\* C29 (begin/finish pairing, while the registry is not disposed): as long as
\* the registry is not disposed, every did-begin-linting delivered is matched
\* by one did-finish-linting delivered or by a race still undecided; the
\* handler of a race emits did-finish-linting once, for its own request,
\* whether the result is committed, stale, invalid, failed or timed out, and
\* no other step emits one; whether it commits is decided by the request
\* numbers, the gate and the validation alone; and every race is eventually
\* decided. Once the registry is disposed the emitter delivers nothing, so a
\* request begun before is finished without an event.
C29_BeginFinishPairing ==
  /\ [](~disposed => Paired)
  /\ [][/\ \A request \in requests :
            Handles(request)
             => /\ finishCount' = Emitted(finishCount, request.linter)
                /\ lastHandled'.linter = request.linter
                /\ lastHandled'.number = request.number
                /\ Commits(request)
                     <=> /\ lastHandled'.result = "array"
                         /\ ~ResultDiscarded(request)
                         /\ ~disposed
       /\ finishCount' # finishCount
            => Cardinality({request \in requests : Handles(request)}) = 1
       /\ \A linter \in Providers :
            beginCount'[linter] - beginCount[linter]
              = IF disposed THEN 0
                ELSE Cardinality({r \in Issued : r.linter = linter})]_vars
  /\ \A linter \in Providers : \A number \in 1..MaxRequest :
       Racing(linter, number) ~> Decided(linter, number)

\* The statement as claimed: every did-begin-linting is matched by a
\* did-finish-linting or by a race still undecided, in every state.
C29_AlwaysPaired == Paired

\* Two requests were begun and finished, the second by its timeout, while the
\* registry was in use.
C29_Witness ==
  /\ ~disposed
  /\ beginCount["p1"] = 2 /\ finishCount["p1"] = 2
  /\ InFlight("p1") = {}
  /\ lastHandled.linter = "p1" /\ lastHandled.number = 2
  /\ lastHandled.how = "failed" /\ lastHandled.result = "timed out"

\* A later request of the same provider, issued for another document, has
\* passed the commit gate before the race of request settles.
OvertakenElsewhere(request) ==
  \E later \in requests :
    /\ later.linter = request.linter
    /\ later.buffer # request.buffer
    /\ later.number > request.number
    /\ later.raceSettled
    /\ requestLastReceived[request.linter] >= later.number

\* C30 (one counter per provider): the requests of a provider have distinct
\* numbers whatever their documents; and when the race of a request settles
\* after a later request of the same provider for another document has
\* passed the commit gate, the result is not committed: the Map, and with it
\* the bucket of the request's own document, and the accepted request number
\* stay as they are.
C30_CounterPerProvider ==
  /\ [](\A r1, r2 \in requests :
          (r1.linter = r2.linter /\ r1.number = r2.number) => r1.buffer = r2.buffer)
  /\ [][\A request \in requests :
          (Handles(request) /\ OvertakenElsewhere(request))
           => /\ ~Commits(request)
              /\ lastHandled'.how \in {"discarded", "failed"}
              /\ Bucket(request.buffer, request.linter)'
                   = Bucket(request.buffer, request.linter)
              /\ UNCHANGED << messagesMap, debounceArmed, requestLastReceived >>]_vars

\* Request 1 was issued for b1 and request 2 for b2; request 2 was committed
\* first, then the provider resolved request 1 with messages, which were
\* discarded: b2 has a bucket, b1 has none.
C30_Witness ==
  /\ lastHandled = Handled([linter |-> "p1", number |-> 1], "discarded", "array")
  /\ requestLastReceived["p1"] = 2
  /\ \E r1, r2 \in requests :
       /\ r1.linter = "p1" /\ r1.number = 1 /\ r1.buffer = "b1" /\ r1.raceSettled
       /\ r2.linter = "p1" /\ r2.number = 2 /\ r2.buffer = "b2" /\ r2.raceSettled
  /\ HasBucket("b2", "p1")
  /\ ~HasBucket("b1", "p1")

\* The handler of request runs for a result that passes the commit gate and
\* is null, undefined or not valid.
HandlesEmpty(request) ==
  /\ Handles(request)
  /\ ~ResultDiscarded(request)
  /\ lastHandled'.linter = request.linter
  /\ lastHandled'.number = request.number
  /\ lastHandled'.result \in {"null", "other"}

\* C31 (a result without messages is still an accepted result): the handler
\* of a result that passes the commit gate and is null, undefined or not
\* valid sets the provider's lastCommitted to the number of the request and
\* pushes nothing: every bucket, the visible list and the scheduling of the
\* store are as before; and the handler of any request whose number is not
\* above lastCommitted, whatever it resolved with, pushes nothing either.
C31_EmptyResultAdvances ==
  [][\A request \in requests :
       /\ HandlesEmpty(request)
            => /\ requestLastReceived'
                   = [requestLastReceived EXCEPT ![request.linter] = request.number]
               /\ lastHandled'.how = "dropped"
               /\ UNCHANGED << messagesMap, messages, debounceArmed, updateState >>
       /\ (Handles(request) /\ lastHandled'.how \notin {"failed"}
              /\ requestLastReceived[request.linter] >= request.number)
            => /\ lastHandled'.how = "discarded"
               /\ UNCHANGED << messagesMap, messages, debounceArmed,
                               requestLastReceived >>]_vars

\* Request 2 of p1 resolved with null while request 1 is in flight: nothing
\* was pushed and lastCommitted is 2, so that request 1 can only be discarded.
C31_Witness ==
  /\ lastHandled = Handled([linter |-> "p1", number |-> 2], "dropped", "null")
  /\ requestLastReceived["p1"] = 2
  /\ \E request \in InFlight("p1") : request.number = 1 /\ ResultDiscarded(request)
  /\ activated["p1"] /\ BufferAlive("b1") /\ ~disposed
  /\ ~HasBucket("b1", "p1")
  /\ messages = <<>>
  /\ ~debounceArmed

\* The handler of request runs for an array of messages while no request of
\* the provider with this or a higher number has passed the commit gate.
HandlesFreshArray(request) ==
  /\ Handles(request)
  /\ requestLastReceived[request.linter] < request.number
  /\ lastHandled'.linter = request.linter
  /\ lastHandled'.number = request.number
  /\ lastHandled'.result = "array"

\* C32 (a failure is not a commit): the step in which a request fails or
\* times out leaves lastCommitted of every provider as it is; and a request
\* that resolves with an array while lastCommitted is below its number, as it
\* is when only later requests that failed or timed out were handled before
\* it, is committed: its messages become the list set on its bucket and its
\* number becomes lastCommitted, provided the provider is registered and the
\* document alive at that moment, which the commit gate asks of any result.
C32_FailureKeepsNumber ==
  [][\A request \in requests :
       /\ Fails(request) => UNCHANGED requestLastReceived
       /\ HandlesFreshArray(request)
            => /\ Commits(request)
                    <=> (activated[request.linter] /\ BufferAlive(request.buffer))
               /\ Commits(request)
                    => /\ requestLastReceived'[request.linter] = request.number
                       /\ HasBucket(request.buffer, request.linter)'
                       /\ Bucket(request.buffer, request.linter)'.changed
                       /\ \A i \in 1..Len(Bucket(request.buffer, request.linter)'.messages) :
                            Bucket(request.buffer, request.linter)'.messages[i].oid
                              = request.number]_vars

\* Request 2 of p1 timed out, then request 1 resolved with messages and was
\* committed: lastCommitted is 1 and the bucket holds the list of request 1.
C32_Witness ==
  /\ lastHandled = Handled([linter |-> "p1", number |-> 1], "committed", "array")
  /\ requestLatest["p1"] = 2
  /\ requestLastReceived["p1"] = 1
  /\ \E later \in requests :
       /\ later.linter = "p1" /\ later.number = 2
       /\ later.raceSettled /\ ~later.timerArmed /\ later.lintPending
  /\ notifications["p1"] = << TimeoutError(LINTER_TIMEOUT_MS, "p1") >>
  /\ HasBucket("b1", "p1")
  /\ Bucket("b1", "p1").messages # <<>>
  /\ \A i \in 1..Len(Bucket("b1", "p1").messages) : Bucket("b1", "p1").messages[i].oid = 1

\* The bucket was marked deleted and a list was set on it afterwards, with no
\* pass in between.
SetAfterDelete(entry) == entry.deleted /\ entry.key \in lastSet

\* C33 (set on a bucket marked deleted): a set() on a bucket that is marked
\* deleted stores the list and leaves the mark and the accepted list; the
\* next pass puts the accepted list of the bucket into removed, drops the
\* bucket, and delivers nothing of the list that was set: no message of the
\* bucket is among the added messages or in the full list of that pass.
C33_SetOnDeleted ==
  [][\A i \in 1..Len(messagesMap) :
       /\ (messagesMap[i].deleted /\ ~Passes
             /\ messagesMap[i].key \in lastSet' \ lastSet)
            => LET after == messagesMap'[EntryIndex(messagesMap', messagesMap[i].key)]
               IN /\ EntryIndex(messagesMap', messagesMap[i].key) # 0
                  /\ after.deleted /\ after.changed
                  /\ after.oldMessages = messagesMap[i].oldMessages
                  /\ debounceArmed'
       /\ (SetAfterDelete(messagesMap[i]) /\ Passes)
            => /\ EntryIndex(messagesMap', messagesMap[i].key) = 0
               /\ IsRunOf(messagesMap[i].oldMessages, lastPass'.removed)
               /\ OfBucket(lastPass'.added, messagesMap[i]) = {}
               /\ OfBucket(lastPass'.messages, messagesMap[i]) = {}
               /\ OfBucket(messages', messagesMap[i]) = {}]_vars

\* MsgA1 of p1 was accepted and delivered, the provider was cleared, and
\* MsgB1 was set on the bucket before any pass: the bucket is still marked,
\* holds MsgB1 as its list and MsgA1 as its accepted list.
C33_Witness ==
  /\ HasBucket("b1", "p1")
  /\ SetAfterDelete(Bucket("b1", "p1"))
  /\ Bucket("b1", "p1").changed
  /\ Bucket("b1", "p1").messages = << MsgB1 >>
  /\ Bucket("b1", "p1").oldMessages = << MsgA1 >>
  /\ messages = << MsgA1 >>
  /\ debounceArmed

\* The positions of the messages of a provider in a list.
OfLinter(list, linter) == {i \in 1..Len(list) : list[i].linterName = linter}

\* The provider has no bucket in the Map.
NoBucket(linter) == \A i \in 1..Len(messagesMap) : messagesMap[i].linter # linter

\* The last pass removed messages of the provider, which has had no bucket
\* and no visible message since, and no pass is scheduled or running.
RemovedByPass(linter) ==
  /\ ~debounceArmed /\ updateState = "idle"
  /\ OfLinter(lastPass.removed, linter) # {}
  /\ OfLinter(messages, linter) = {}
  /\ NoBucket(linter)

\* C34 (a disabled provider stays silent): once a pass has removed the
\* buckets of a provider, no step taken while the provider is disabled gives
\* it a bucket again, and the pass that follows the removing pass while the
\* provider is disabled adds none of its messages, whenever a request of the
\* provider was dispatched and whenever it resolves.
C34_DisabledStaysSilent ==
  [][\A linter \in Providers :
       /\ (linter \in disabledProviders /\ linter \in disabledProviders'
             /\ RemovedByPass(linter))
            => NoBucket(linter)'
       /\ (Passes /\ linter \in disabledProviders
             /\ OfLinter(lastPass.removed, linter) # {}
             /\ OfLinter(messages, linter) = {})
            => OfLinter(lastPass'.added, linter) = {}]_vars

\* p1 is disabled and has been since before the last two passes: the first
\* removed its bucket, then request 2, dispatched before p1 was disabled,
\* resolved and was committed, and the second pass added its message, which
\* is visible now.
C34_Witness ==
  /\ "p1" \in disabledProviders
  /\ lastHandled = Handled([linter |-> "p1", number |-> 2], "committed", "array")
  /\ lastPass.emitted
  /\ lastPass.removed = <<>>
  /\ OfLinter(lastPass.added, "p1") # {}
  /\ \A i \in OfLinter(lastPass.added, "p1") : lastPass.added[i].oid = 2
  /\ messages = lastPass.added
  /\ HasBucket("b1", "p1") /\ ~Bucket("b1", "p1").deleted
  /\ ~debounceArmed

\* A timer whose EditorLinter is disposed expires in this step.
StaleTimerExpires == \E t \in timers : ~t.live /\ t \notin timers'

\* C35 (nothing is delivered after dispose): the step that disposes the
\* EditorLinter of an editor delivers did-destroy (the registry forgets the
\* editor and, unless a sibling shows the buffer, its messages are marked
\* deleted) and no step that disposes no EditorLinter does; the disposed
\* EditorLinter keeps no change timer and no subscription; the expiry of a
\* timer it has left behind delivers no should-lint; and no should-lint is
\* delivered for an editor as long as it has no new EditorLinter.
C35_SilentAfterDispose ==
  [][/\ \A e \in AllEditors :
          /\ Unregisters(e)
               => /\ \A t \in timers' : t.editor = e => (t.kind = "save" /\ ~t.live)
                  /\ SubscribedHandlers(e)' = {}
                  /\ \A onChange \in BOOLEAN : ~EmitsShouldLint(e, onChange)
                  /\ ~SharesBuffer(e) => debounceArmed'
          /\ (e \notin editorLinters /\ e \notin editorLinters')
               => \A onChange \in BOOLEAN : ~EmitsShouldLint(e, onChange)
     /\ StaleTimerExpires
          => /\ lintCalls' = lintCalls
             /\ lastTrigger' = lastTrigger
             /\ timers' \subseteq timers
     /\ (\A e \in AllEditors : ~Unregisters(e))
          => /\ editorLinters \subseteq editorLinters'
             /\ UNCHANGED << messagesMap, debounceArmed, aliveBuffers >>]_vars

\* Linting was toggled off for e1 right after two saves: the trailing call
\* of its save debounce is pending on the disposed EditorLinter, the last
\* signal delivered is the leading one of the first save, and the split pane
\* e3 is linted as before.
C35_Witness ==
  /\ "e1" \notin editorLinters
  /\ "e3" \in editorLinters
  /\ Timer("e1", "save", TRUE, FALSE) \in timers
  /\ lastTrigger = [editor |-> "e1", onChange |-> FALSE, cause |-> "save"]
  /\ SubscribedHandlers("e1") = {}
  /\ BufferAlive("b1")

\* A set() or a clear operation is called in this step.
Mutates ==
  /\ ~Passes
  /\ \/ lastSet' # lastSet
     \/ \E i \in 1..Len(messagesMap') :
          \/ i > Len(messagesMap)
          \/ messagesMap'[i].messages # messagesMap[i].messages
          \/ (messagesMap'[i].changed /\ ~messagesMap[i].changed)
          \/ (messagesMap'[i].deleted /\ ~messagesMap[i].deleted)

\* Some bucket holds a mutation that no pass has met.
Unreconciled ==
  \E i \in 1..Len(messagesMap) : messagesMap[i].changed \/ messagesMap[i].deleted

\* C36 (trailing-only debounce, no maximum wait): a set() or a clear
\* operation runs no pass and emits no batch in its own step, whatever the
\* number of calls since the last pass, and leaves the pass scheduled; a
\* batch is computed only by the step in which the debounce has elapsed; a
\* mutation not yet met by a pass always has a pass scheduled or running;
\* and, when the calls pause, every scheduled pass runs.
C36_TrailingOnly ==
  /\ [][/\ Mutates
            => /\ debounceArmed'
               /\ messages' = messages
               /\ lastPass' = lastPass
               /\ updateState' = updateState
       /\ (lastPass' # lastPass \/ messages' # messages)
            => (debounceArmed /\ updateState = "idle" /\ Passes)]_vars
  /\ [](Unreconciled => (debounceArmed \/ updateState # "idle"))
  /\ (debounceArmed ~> ~debounceArmed)
  /\ (Unreconciled ~> ~Unreconciled)

\* Two buckets were set since a batch was last emitted, one of them after it
\* was cleared: the pass is still only scheduled and the visible list is
\* that of the last batch.
C36_Witness ==
  /\ debounceArmed /\ updateState = "idle"
  /\ lastPass.emitted
  /\ messages = lastPass.messages
  /\ Cardinality(lastSet) = 2
  /\ \A i \in 1..Len(messagesMap) : messagesMap[i].changed
  /\ \E i \in 1..Len(messagesMap) :
       messagesMap[i].deleted /\ messagesMap[i].oldMessages # <<>>

\* The elements \* The elements of a list.
Elements(list) == {list[i] : i \in 1..Len(list)}

\* C37 (last write wins within a window): a set() on a bucket that holds a
\* list no pass has met replaces that list by the list it is given and
\* leaves the accepted list as it is; the pass gives flagMessages the list
\* last set and the accepted list, and its added and removed lists are what
\* flagMessages returns for them; a message of a replaced list that is
\* neither in the last list nor in the accepted list is not among the added,
\* the removed or the newly accepted messages of the pass.
C37_LastWriteWins ==
  [][/\ (flagWindow' # flagWindow \/ (flagEntry' # flagEntry /\ flagLog' = flagLog))
          => /\ flagEntry' = [flagEntry EXCEPT !.messages = flagWindow'.last,
                                               !.changed = TRUE]
             /\ flagEntry.changed
                  => Elements(flagEntry.messages) \subseteq flagWindow'.skipped
     /\ flagLog' # flagLog
          => LET pass == flagLog'[Len(flagLog')]
                 diff == flagMessages(flagWindow.last, flagEntry.oldMessages)
             IN /\ pass.inputs = flagWindow.last
                /\ pass.oldMessages = flagEntry.oldMessages
                /\ pass.added = diff.newAdded
                /\ pass.removed = diff.oldRemoved
                /\ pass.accepted = diff.newAdded \o diff.oldKept
                /\ \A m \in flagWindow.skipped :
                     m \notin Elements(flagWindow.last) \cup Elements(flagEntry.oldMessages)
                       => m \notin Elements(pass.added) \cup Elements(pass.removed)
                                     \cup Elements(pass.accepted)]_vars

\* The bucket held MsgB1; MsgA1 was set, then the empty list, and the pass
\* ran: it removed MsgB1 and reported nothing of MsgA1.
C37_Witness ==
  /\ flagWindow = [last |-> <<>>, skipped |-> {MsgA1}]
  /\ ~flagEntry.changed
  /\ flagLog # <<>>
  /\ LET pass == flagLog[Len(flagLog)]
     IN /\ pass.oldMessages = << MsgB1 >>
        /\ pass.inputs = <<>>
        /\ pass.added = <<>>
        /\ pass.removed = << MsgB1 >>
        /\ pass.accepted = <<>>

\* No pass of update() is executing.
NoPassExecuting == updateCall # "emitting"

\* C38 (idle on every exit of a pass): while no pass is executing updateState
\* is "idle"; a step that leaves a pass, by the return of the listeners or by
\* an exception of one, sets updateState to "idle" and schedules a pass iff
\* one was asked for meanwhile; and a pass that is scheduled is not blocked:
\* a state that is not idle leads to an idle one, and a scheduled pass runs.
C38_IdleOnExit ==
  /\ [](NoPassExecuting => updateState = "idle")
  /\ [][(~NoPassExecuting /\ NoPassExecuting')
          => /\ updateState' = "idle"
             /\ debounceArmed' = (debounceArmed \/ updateState = "pending")]_vars
  /\ (updateState # "idle") ~> (updateState = "idle")
  /\ debounceArmed ~> (~debounceArmed /\ lastSet = {})

\* A pass emitted its batch, a listener threw, the state is idle and a pass
\* is scheduled.
C38_Witness ==
  /\ updateCall = "thrown"
  /\ updateState = "idle"
  /\ debounceArmed
  /\ lastPass.emitted

\* A step of deleteMessage(), seen through its recorded call.
Deletes == lastDelete' # lastDelete

\* The non-deleted buckets that have the object in their accepted list.
Owners(message) ==
  {i \in 1..Len(messagesMap) :
     ~messagesMap[i].deleted /\ message \in Elements(messagesMap[i].oldMessages)}

\* What a call of deleteMessage() that finds nothing leaves alone.
NothingDeleted == UNCHANGED << messagesMap, messages, lastPass, updateState, debounceArmed >>

\* C39 as stated (deleteMessage removes by key): after a call that returns
\* true a batch with removed = [m] has been emitted at once, with debounce
\* and state machine untouched, and no message with the key of m is left in
\* the accepted list of the owning bucket or in the messages of the batch; a
\* call for an m that no non-deleted bucket has accepted returns false and
\* changes nothing.
C39_NoKeyRemains ==
  [][Deletes =>
       LET m == lastDelete'[1].message
       IN /\ lastDelete'[1].returned = (Owners(m) # {})
          /\ ~lastDelete'[1].returned => NothingDeleted
          /\ lastDelete'[1].returned
               => /\ lastPass'.emitted /\ lastPass'.added = <<>> /\ lastPass'.removed = << m >>
                  /\ lastPass'.messages = messages'
                  /\ UNCHANGED << updateState, debounceArmed >>
                  /\ \A i \in Owners(m) : \A j \in Owners(m) : i <= j =>
                       \A other \in Elements(messagesMap'[i].oldMessages)
                                       \cup Elements(lastPass'.messages) :
                         other.key # m.key]_vars

\* C39 (deleteMessage removes the object): a call for an m that some
\* non-deleted bucket has accepted returns true; the first such bucket in
\* the Map's order loses the first occurrence of the object m in its
\* accepted list and nothing else, no other bucket changes, messages loses
\* every occurrence of the object m and nothing else, and a batch with no
\* added message, removed = [m] and that messages list has been emitted at
\* once, with the debounce and the state machine untouched; other messages
\* that have the key of m stay where they are.  A call for an m that no
\* non-deleted bucket has accepted returns false and changes nothing.
C39_DeleteMessage ==
  [][Deletes =>
       LET m == lastDelete'[1].message
       IN /\ lastDelete'[1].returned = (Owners(m) # {})
          /\ ~lastDelete'[1].returned => NothingDeleted
          /\ lastDelete'[1].returned
               => /\ lastPass' = [ emitted |-> TRUE, added |-> <<>>, removed |-> << m >>,
                                   messages |-> messages' ]
                  /\ UNCHANGED << updateState, debounceArmed, updateCall, lastSet >>
                  /\ messages' = SelectSeq(messages, LAMBDA other : other # m)
                  /\ Len(messagesMap') = Len(messagesMap)
                  /\ \A i \in 1..Len(messagesMap) :
                       IF i \in Owners(m) /\ \A j \in Owners(m) : i <= j
                       THEN LET before == messagesMap[i].oldMessages
                                after == messagesMap'[i].oldMessages
                                first == CHOOSE k \in 1..Len(before) :
                                           /\ before[k] = m
                                           /\ \A n \in 1..(k - 1) : before[n] # m
                            IN /\ messagesMap'[i] = [messagesMap[i] EXCEPT !.oldMessages = after]
                               /\ after = SubSeq(before, 1, first - 1)
                                            \o SubSeq(before, first + 1, Len(before))
                       ELSE messagesMap'[i] = messagesMap[i]]_vars

\* MsgA1 and MsgA2, of one key, were accepted for one bucket; MsgA1 was
\* deleted: the batch removed MsgA1, and MsgA2 is still accepted and listed.
C39_Witness ==
  /\ lastDelete = << [message |-> MsgA1, returned |-> TRUE] >>
  /\ MsgA1.key = MsgA2.key
  /\ lastPass = [ emitted |-> TRUE, added |-> <<>>, removed |-> << MsgA1 >>,
                  messages |-> << MsgA2 >> ]
  /\ messages = << MsgA2 >>
  /\ Len(messagesMap) = 1
  /\ messagesMap[1].oldMessages = << MsgA2 >>
  /\ ~messagesMap[1].deleted

====
